---- MODULE Spec2Model ----
(***************************************************************************)
(* A model of @ecom-co/elasticsearch: the decorator metadata store, the    *)
(* schema compiler and document projector (es.decorators.ts, es.utils.ts), *)
(* the connection registry (es.service.ts), start-up auto-provisioning     *)
(* (es.module.ts) and the generic repository (es.repository.ts) running    *)
(* against a search-engine connection.                                     *)
(*                                                                         *)
(* The connection is the @elastic/elasticsearch client: every call is one  *)
(* network round trip that the engine answers atomically; a caller is      *)
(* suspended only between two calls of the same method.                    *)
(***************************************************************************)
EXTENDS Integers, Sequences, FiniteSets, TLC

\* ------------------------------------------------------------------ bounds

\* Longest id list handed to mgetSources and bulkDeleteByIds.
MaxIds == 3
\* Longest batch handed to bulkIndex and bulkUpdateByIds.
MaxBulk == 2

\* ------------------------------------------------------------------ values

\* JavaScript values.  Every kind has its own record shape, so values of
\* different kinds are unequal without being comparable field by field.
Undefined == [undefined |-> TRUE]
JsStr(s) == [string |-> s]
JsBool(b) == [boolean |-> b]
JsNum(n) == [number |-> n]
JsObj(o) == [object |-> o]

IsUndefined(v) == v = Undefined
Null == [null |-> TRUE]
IsNil(v) == v = Undefined \/ v = Null
IsObject(v) == "object" \in DOMAIN v

\* An object is its own-property map; {} is the empty map.
EmptyObj == [k \in {} |-> Undefined]
Put(o, k, v) == [x \in DOMAIN o \cup {k} |-> IF x = k THEN v ELSE o[x]]

\* A synchronous evaluation either returns a value or throws.
Return(v) == [threw |-> FALSE, value |-> v]
Throw(e) == [threw |-> TRUE, error |-> e]

\* Sequences over S of length at most n.
SeqsUpTo(S, n) == UNION {[1..k -> S] : k \in 0..n}

\* ------------------------------------------------------------------ lodash

\* Property keys that lodash reads as a path (reIsDeepProp: they hold a "."),
\* with the segments stringToPath cuts them into.
DeepKeys == {"a.b"}
stringToPath(key) == IF key = "a.b" THEN <<"a", "b">> ELSE <<key>>

\* castPath(value, object): a key the object itself owns stays one key.
castPath(key, o) ==
    IF key \in DeepKeys /\ key \notin DOMAIN o THEN stringToPath(key) ELSE <<key>>

RECURSIVE baseGet(_, _)
baseGet(v, path) ==
    IF path = <<>> THEN v
    ELSE IF IsObject(v) /\ Head(path) \in DOMAIN v.object
         THEN baseGet(v.object[Head(path)], Tail(path))
         ELSE Undefined

\* get(object, path)
get(o, key) == baseGet(JsObj(o), castPath(key, o))

RECURSIVE baseSet(_, _, _)
baseSet(o, path, value) ==
    LET k == Head(path)
        cur == IF k \in DOMAIN o THEN o[k] ELSE Undefined
        nested == IF IsObject(cur) THEN cur.object ELSE EmptyObj
    IN  IF Len(path) = 1 THEN Put(o, k, value)
        ELSE Put(o, k, JsObj(baseSet(nested, Tail(path), value)))

\* set(object, path, value): the object after the assignment.
set(o, key, value) == baseSet(o, castPath(key, o), value)

VARIABLES
    documentMeta,   \* class -> Document Declaration (Reflect metadata es:document)
    fieldsMeta,     \* class -> reference to its Map of Field Declarations (es:field)
    maps,           \* heap of those Maps: allocating class -> entries, in insertion order
    indexMeta,      \* class -> Index Declaration (es:index)
    esExists,       \* engine: names of the indices that exist
    esDocs,         \* engine: index name -> (id -> stored body)
    task,           \* caller -> where it is suspended inside a repository method
    last,           \* outcome of the most recently completed repository call
    moduleOptions,  \* the module options (ES_MODULE_OPTIONS)
    nameToClient,   \* ElasticsearchService.nameToClient: normalized name -> client
    boot,           \* where EsIndexInitializer.onModuleInit is, and how it ended
    creations,      \* the index-creation calls onModuleInit has issued
    created,        \* the clients createElasticsearchClient has made, and their closing
    shutdown,       \* where ElasticsearchService.onModuleDestroy is
    projected,      \* the latest toElasticsearchDocument call: its input and output
    compiled,       \* the latest buildDocumentMetadata call a caller has observed
    derived         \* the latest injection token derived, and the names it came from

metaVars == <<documentMeta, fieldsMeta, maps, indexMeta>>
engineVars == <<esExists, esDocs>>
moduleVars == <<moduleOptions, nameToClient, boot, creations, created, shutdown>>
callVars == <<compiled, derived>>
vars == <<metaVars, engineVars, task, last, moduleVars, projected, callVars>>

\* ---------------------------------------------------------- metadata store

\* The classes of the bounded universe; Variant extends Product.
Classes == {"Product", "Order", "Variant"}
superclass == [c \in {"Variant"} |-> "Product"]

\* Reflect.getMetadata(key, target): own metadata, else the prototype chain's.
RECURSIVE getMetadata(_, _)
getMetadata(store, target) ==
    IF ~IsUndefined(store[target]) THEN store[target]
    ELSE IF target \in DOMAIN superclass THEN getMetadata(store, superclass[target])
    ELSE Undefined

getDocumentMetadata(target) == getMetadata(documentMeta, target)
getFieldsMetadata(target) == getMetadata(fieldsMeta, target)
\* A reader that never finds an Index Declaration.
getIndexMetadata_none(target) == Undefined

getIndexMetadata(target) == getMetadata(indexMeta, target)

\* Map.prototype.set: a known key keeps its place, a new key goes last.
MapSet(entries, key, options) ==
    IF \E i \in DOMAIN entries : entries[i].key = key
    THEN [i \in DOMAIN entries |->
            IF entries[i].key = key THEN [key |-> key, options |-> options] ELSE entries[i]]
    ELSE Append(entries, [key |-> key, options |-> options])

MapKeys(entries) == {entries[i].key : i \in DOMAIN entries}

\* The entries of the Map a getFieldsMetadata result refers to.
EntriesOf(ref) == maps[ref.map]

\* @Document(options) on class target.
Document(options, target) ==
    /\ documentMeta' = [documentMeta EXCEPT ![target] = options]
    /\ UNCHANGED <<fieldsMeta, maps, indexMeta>>

\* @Field(options) on property propertyKey of class ctor.
Field(options, ctor, propertyKey) ==
    LET found == getMetadata(fieldsMeta, ctor)
        existingFields == IF IsUndefined(found) THEN [map |-> ctor] ELSE found
        before == IF IsUndefined(found) THEN <<>> ELSE EntriesOf(found)
    IN  /\ maps' = [maps EXCEPT ![existingFields.map] = MapSet(before, propertyKey, options)]
        /\ fieldsMeta' = [fieldsMeta EXCEPT ![ctor] = existingFields]
        /\ UNCHANGED <<documentMeta, indexMeta>>

\* @Index(options) on class target.
Index(options, target) ==
    /\ indexMeta' = [indexMeta EXCEPT ![target] = options]
    /\ UNCHANGED <<documentMeta, fieldsMeta, maps>>

\* ---------------------------------------------------------- schema compiler

\* fieldsMetadata.forEach((fieldOptions, fieldName) => set(properties, key, fieldOptions)).
\* A plain key stores the Map entry's own options object in properties; a later
\* path key whose head is that key is assigned inside that same object, so the
\* Map entry sees it too (aliased = the keys of properties that hold such an object).
RECURSIVE forEachField(_, _, _, _)
forEachField(i, entries, properties, aliased) ==
    IF i > Len(entries) THEN [properties |-> properties, entries |-> entries]
    ELSE LET key == entries[i].key
             path == castPath(key, properties)
             next == set(properties, key, entries[i].options)
             h == Head(path)
         IN  IF Len(path) = 1
             THEN forEachField(i + 1, entries, next, aliased \cup {key})
             ELSE IF h \in aliased
             THEN forEachField(i + 1,
                      [j \in DOMAIN entries |->
                          IF entries[j].key = h
                          THEN [key |-> h, options |-> next[h]] ELSE entries[j]],
                      next, aliased)
             ELSE forEachField(i + 1, entries, next, aliased \ {h})

\* buildDocumentMetadata(target): the Schema Descriptor (Undefined without a
\* Document Declaration) and the Map entries as the call leaves them.
buildDocumentMetadata(target) ==
    LET documentOptions == getDocumentMetadata(target)
        fieldsMetadata == getFieldsMetadata(target)
        indexMetadata == getIndexMetadata(target)
    IN  IF IsUndefined(documentOptions) THEN [meta |-> Undefined, entries |-> <<>>]
        ELSE LET baseMappings == IF IsUndefined(documentOptions.mappings)
                                 THEN EmptyObj ELSE documentOptions.mappings.object
                 baseProps == IF "properties" \in DOMAIN baseMappings
                                 /\ IsObject(baseMappings["properties"])
                              THEN baseMappings["properties"].object ELSE EmptyObj
                 walked == IF IsUndefined(fieldsMetadata)
                           THEN [properties |-> EmptyObj, entries |-> <<>>]
                           ELSE forEachField(1, EntriesOf(fieldsMetadata), baseProps, {})
                 mappings == IF IsUndefined(fieldsMetadata) THEN baseMappings
                             ELSE Put(baseMappings, "properties", JsObj(walked.properties))
                 settings == IF ~IsUndefined(indexMetadata)
                                /\ ~IsUndefined(indexMetadata.settings)
                             THEN indexMetadata.settings ELSE documentOptions.settings
             IN  [meta |-> [type |-> documentOptions.type,
                            fields |-> fieldsMetadata,
                            index |-> documentOptions.index,
                            mappings |-> mappings,
                            settings |-> settings],
                  entries |-> walked.entries]

\* What calls of buildDocumentMetadata on the given classes leave in the
\* metadata store: the Map of every class compiled with a Document Declaration
\* is left as its compilation leaves it (compiling it again changes nothing more).
CompilesAll(targets) ==
    LET walked(c) == {t \in targets : /\ ~IsUndefined(getDocumentMetadata(t))
                                       /\ ~IsUndefined(getFieldsMetadata(t))
                                       /\ getFieldsMetadata(t).map = c}
    IN  /\ maps' = [c \in Classes |->
                       IF walked(c) = {} THEN maps[c]
                       ELSE buildDocumentMetadata(CHOOSE t \in walked(c) : TRUE).entries]
        /\ UNCHANGED <<documentMeta, fieldsMeta, indexMeta>>

\* ------------------------------------------------------- document projector

\* An instance is its constructor and its own enumerable properties.
Instance(ctor, props) == [ctor |-> ctor, props |-> props]

RECURSIVE projectFields(_, _, _)
projectFields(entries, record, document) ==
    IF entries = <<>> THEN document
    ELSE LET key == Head(entries).key
             value == get(record, key)
         IN  projectFields(Tail(entries), record,
                 IF IsUndefined(value) THEN document ELSE set(document, key, value))

\* A projector that copies every own property, declared or not.
toElasticsearchDocument_clone(instance) == instance.props

\* toElasticsearchDocument(instance)
toElasticsearchDocument(instance) ==
    LET fieldsMetadata == IF instance.ctor \in Classes
                          THEN getFieldsMetadata(instance.ctor) ELSE Undefined
    IN  IF IsUndefined(fieldsMetadata) THEN instance.props
        ELSE projectFields(EntriesOf(fieldsMetadata), instance.props, EmptyObj)

\* ------------------------------------------------------------- the engine

\* The cluster behind the connection, as the @elastic/elasticsearch client
\* shows it: each call is answered with an HTTP status and a body.
IndexNames == {"products", "orders"}
IdOrder == <<JsStr("x"), JsStr("y")>>
Ids == {IdOrder[i] : i \in DOMAIN IdOrder}
NoDocs == [i \in {} |-> EmptyObj]

\* How a connection call can fail without the engine acting on it.
Faults == {"none", "ConnectionError", "Unauthorized"}

Response(status, type, body) ==
    [status |-> status, type |-> type, body |-> body, exists |-> esExists, docs |-> esDocs]
Changed(r, exists, docs) == [r EXCEPT !.exists = exists, !.docs = docs]

\* The index a request names ("" when it names none).
Name(v) == IF "string" \in DOMAIN v THEN v.string ELSE ""
Known(req) == Name(req.index) \in IndexNames
Live(req) == Name(req.index) \in esExists
Stored(req) == Live(req) /\ req.id \in DOMAIN esDocs[Name(req.index)]

DropKey(f, k) == [x \in DOMAIN f \ {k} |-> f[x]]
WithDoc(req, id, body) ==
    [esDocs EXCEPT ![Name(req.index)] = Put(esDocs[Name(req.index)], id, body)]

\* An update that puts the partial document in place of the stored body.
Merge_replace(body, doc) == doc

\* A partial document merged onto a stored body.
Merge(body, doc) ==
    [k \in DOMAIN body \cup DOMAIN doc |-> IF k \in DOMAIN doc THEN doc[k] ELSE body[k]]

\* An inline script: assigns params.value to the field it names.
RunScript(script, body) == Put(body, script.field, script.value)

\* A query: absent (match all) or a term on one field.
Matches(query, body) ==
    \/ IsUndefined(query)
    \/ /\ query.field \in DOMAIN body
       /\ body[query.field] = query.value
Matching(req) ==
    SelectSeq(IdOrder, LAMBDA id : /\ id \in DOMAIN esDocs[Name(req.index)]
                                   /\ Matches(req.query, esDocs[Name(req.index)][id]))

\* The engine rejects an index body it cannot build (here: fewer than one shard).
EngineAccepts(req) ==
    \/ IsUndefined(req.settings)
    \/ req.settings.object["number_of_shards"].number >= 1

\* The engine's answer to a request it cannot carry out.
Refused(status, type) == Response(status, type, Undefined)

es_indices_create(req) ==
    IF ~Known(req) THEN Refused(400, "illegal_argument_exception")
    ELSE IF Live(req) THEN Response(400, "resource_already_exists_exception", Undefined)
    ELSE IF ~EngineAccepts(req) THEN Refused(400, "illegal_argument_exception")
    ELSE Changed(Response(200, "acknowledged", Undefined),
                 esExists \cup {Name(req.index)}, [esDocs EXCEPT ![Name(req.index)] = NoDocs])

es_indices_delete(req) ==
    IF ~Live(req) THEN Response(404, "index_not_found_exception", Undefined)
    ELSE Changed(Response(200, "acknowledged", Undefined),
                 esExists \ {Name(req.index)}, [esDocs EXCEPT ![Name(req.index)] = NoDocs])

\* index: creates the index on first use; without an id the engine makes one up
\* (req.fresh, an id no document has).
es_index(req) ==
    IF ~Known(req) THEN Refused(400, "illegal_argument_exception")
    ELSE LET id == IF IsUndefined(req.id) THEN req.fresh ELSE req.id
         IN  Changed(Response(201, "created", Undefined),
                     esExists \cup {Name(req.index)}, WithDoc(req, id, req.document))

es_delete(req) ==
    IF ~Stored(req) THEN Refused(404, "not_found")
    ELSE Changed(Response(200, "deleted", Undefined), esExists,
                 [esDocs EXCEPT ![Name(req.index)] = DropKey(@, req.id)])

es_get(req) ==
    IF ~Stored(req) THEN Refused(404, "not_found")
    ELSE Response(200, "ok", [_id |-> req.id, _index |-> req.index, found |-> TRUE,
                              _source |-> JsObj(esDocs[Name(req.index)][req.id])])

es_update(req) ==
    IF ~Known(req) THEN Refused(400, "illegal_argument_exception")
    ELSE IF Stored(req)
    THEN Changed(Response(200, "updated", Undefined), esExists,
                 WithDoc(req, req.id,
                         IF IsUndefined(req.script)
                         THEN Merge(esDocs[Name(req.index)][req.id], req.doc)
                         ELSE RunScript(req.script, esDocs[Name(req.index)][req.id])))
    ELSE IF req.doc_as_upsert
    THEN Changed(Response(201, "created", Undefined),
                 esExists \cup {Name(req.index)}, WithDoc(req, req.id, req.doc))
    ELSE Response(404, "document_missing_exception", Undefined)

\* mget: one entry per requested document, in request order.
es_mget(req) ==
    Response(200, "ok", [docs |->
        [i \in DOMAIN req.docs |->
            LET d == [index |-> req.docs[i]._index, id |-> req.docs[i]._id]
            IN  IF Stored(d)
                THEN [_id |-> d.id, found |-> TRUE, _source |-> JsObj(esDocs[Name(d.index)][d.id])]
                ELSE [_id |-> d.id, found |-> FALSE, _source |-> Undefined]]])

\* bulk: the items are applied in order; an item that fails is reported in
\* the body, never as a failure of the call.
RECURSIVE ApplyBulk(_, _, _, _)
ApplyBulk(items, fresh, exists, docs) ==
    IF items = <<>> THEN [exists |-> exists, docs |-> docs]
    ELSE LET it == Head(items)
             ix == Name(it.index)
             has == ix \in exists /\ it.id \in DOMAIN docs[ix]
         IN  IF ix \notin IndexNames
             THEN ApplyBulk(Tail(items), fresh, exists, docs)
             ELSE IF it.action = "index"
             THEN ApplyBulk(Tail(items), Tail(fresh), exists \cup {ix},
                      [docs EXCEPT ![ix] = Put(docs[ix], Head(fresh), it.body)])
             ELSE IF it.action = "delete" /\ has
             THEN ApplyBulk(Tail(items), fresh, exists,
                      [docs EXCEPT ![ix] = DropKey(docs[ix], it.id)])
             ELSE IF it.action = "update" /\ has
             THEN ApplyBulk(Tail(items), fresh, exists,
                      [docs EXCEPT ![ix] =
                          Put(docs[ix], it.id, Merge(docs[ix][it.id], it.body))])
             ELSE ApplyBulk(Tail(items), fresh, exists, docs)

\* The operations array read as items: an action entry, then its body if it has one.
RECURSIVE BulkItems(_)
BulkItems(operations) ==
    IF operations = <<>> THEN <<>>
    ELSE LET head == Head(operations)
         IN  IF head.action = "delete"
             THEN <<[action |-> "delete", index |-> head._index, id |-> head._id,
                     body |-> EmptyObj]>> \o BulkItems(Tail(operations))
             ELSE <<[action |-> head.action, index |-> head._index, id |-> head._id,
                     body |-> operations[2].body]>> \o BulkItems(Tail(Tail(operations)))

es_bulk(req) ==
    LET after == ApplyBulk(BulkItems(req.operations), req.fresh, esExists, esDocs)
    IN  Changed(Response(200, "ok", Undefined), after.exists, after.docs)

es_deleteByQuery(req) ==
    IF ~Live(req) THEN Response(404, "index_not_found_exception", Undefined)
    ELSE Changed(Response(200, "ok", Undefined), esExists,
                 [esDocs EXCEPT ![Name(req.index)] =
                     [id \in DOMAIN @ \ {Matching(req)[k] : k \in DOMAIN Matching(req)} |-> @[id]]])

es_updateByQuery(req) ==
    IF ~Live(req) THEN Response(404, "index_not_found_exception", Undefined)
    ELSE IF IsUndefined(req.script) THEN Response(200, "ok", Undefined)
    ELSE Changed(Response(200, "ok", Undefined), esExists,
                 [esDocs EXCEPT ![Name(req.index)] =
                     [id \in DOMAIN @ |->
                         IF Matches(req.query, @[id]) THEN RunScript(req.script, @[id])
                         ELSE @[id]]])

\* search: the matching documents in id order, at most size of them (10 when
\* the request names no size); a sorted search carries no scores, and the
\* engine leaves the source out of the hits in req.bare.
es_search(req) ==
    IF ~Live(req) THEN Response(404, "index_not_found_exception", Undefined)
    ELSE LET found == Matching(req)
             size == IF IsUndefined(req.size) THEN 10 ELSE req.size.number
             page == SubSeq(found, 1, IF Len(found) < size THEN Len(found) ELSE size)
         IN  Response(200, "ok",
                 [hits |-> [hits |-> [k \in DOMAIN page |->
                     [_id |-> page[k], _index |-> req.index,
                      _score |-> IF IsUndefined(req.sort) THEN JsNum(1) ELSE Null,
                      _source |-> IF page[k] \in req.bare THEN Undefined
                                  ELSE JsObj(esDocs[Name(req.index)][page[k]])]]]])

Engine(req) ==
    CASE req.api = "indices.exists" -> Response(200, "ok", JsBool(Live(req)))
      [] req.api = "indices.create" -> es_indices_create(req)
      [] req.api = "indices.delete" -> es_indices_delete(req)
      [] req.api = "indices.refresh" ->
            IF ~Live(req) THEN Refused(404, "index_not_found_exception")
            ELSE Response(200, "ok", Undefined)
      [] req.api = "index" -> es_index(req)
      [] req.api = "delete" -> es_delete(req)
      [] req.api = "exists" -> Response(200, "ok", JsBool(Stored(req)))
      [] req.api = "get" -> es_get(req)
      [] req.api = "update" -> es_update(req)
      [] req.api = "mget" -> es_mget(req)
      [] req.api = "bulk" -> es_bulk(req)
      [] req.api = "count" ->
            IF ~Live(req) THEN Refused(404, "index_not_found_exception")
            ELSE Response(200, "ok", [count |-> Len(Matching(req))])
      [] req.api = "deleteByQuery" -> es_deleteByQuery(req)
      [] req.api = "updateByQuery" -> es_updateByQuery(req)
      [] req.api = "search" -> es_search(req)

\* What the client gives the caller of one call: the body when the status is a
\* success or is listed in the call's ignore option, a thrown error otherwise.
Transport(fault, r, ignore) ==
    IF fault = "ConnectionError" THEN Throw("ConnectionError")
    ELSE IF fault = "Unauthorized" THEN Throw("ResponseError 401")
    ELSE IF r.status < 300 \/ r.status \in ignore THEN Return(r.body)
    ELSE IF r.status = 404 THEN Throw("ResponseError 404")
    ELSE Throw("ResponseError 400")

\* ------------------------------------------------------------ repository

\* The entity class the repository is bound to, and its callers.
entityCtor == "Product"
Procs == {"p1", "p2"}

\* Arguments of the bounded universe.
EntityInstances ==
    {Instance("Product", [k \in {"name"} |-> JsStr("v1")]),
     Instance("Product", [k \in {"name", "secret"} |-> JsStr("v2")])}
Partials == {[k \in {"name"} |-> JsStr("v2")], [k \in {"price"} |-> JsStr("v1")]}
Scripts == {[source |-> "ctx._source[params.field] = params.value",
             field |-> "price", value |-> JsStr("v2")]}
Queries == {Undefined, [field |-> "name", value |-> JsStr("v1")]}

Idle == [at |-> "idle"]
NoCall == [status |-> 0, type |-> "no call", held |-> <<>>]

\* A call as the method sees it: the request the connection is handed (fresh
\* and bare are the engine's choices, not parts of the request) and how it ended.
Sent(req, seen) ==
    [req |-> [k \in DOMAIN req \ {"fresh", "bare"} |-> req[k]],
     status |-> seen.status, type |-> seen.type]

\* A running method: its caller, its name and arguments, the calls it has
\* made and the requests they carried.
Frame(p, op, args) == [proc |-> p, op |-> op, args |-> args, calls |-> 0, sent |-> <<>>]

\* The method returns or throws: its outcome becomes the last one observed
\* (again: it repeats the method completed just before, which had returned).
Finish(f, result, seen) ==
    /\ last' = [proc |-> f.proc, op |-> f.op, args |-> f.args, calls |-> f.calls,
                sent |-> f.sent,
                again |-> (f.op = last.op /\ ~last.threw),
                threw |-> result.threw,
                value |-> IF result.threw THEN Undefined ELSE result.value,
                error |-> IF result.threw THEN result.error ELSE "none",
                seen |-> seen]
    /\ task' = [task EXCEPT ![f.proc] = Idle]
    /\ UNCHANGED <<moduleVars, projected, callVars>>

\* The method is suspended before its next call.
Suspend(f, at, locals) ==
    /\ task' = [task EXCEPT ![f.proc] = [at |-> at, frame |-> f, locals |-> locals]]
    /\ UNCHANGED <<last, moduleVars, projected, callVars>>

\* What the method saw of one call: the status and type the connection
\* answered with (0 and the fault when the transport failed), and the stored
\* documents or hits the answer was read from.
Seen(req, r, fault) ==
    [status |-> IF fault = "none" THEN r.status ELSE 0,
     type |-> IF fault = "none" THEN r.type ELSE fault,
     held |-> IF req.api = "mget" THEN esDocs
              ELSE IF req.api = "search" /\ fault = "none" /\ r.status = 200
              THEN r.body.hits.hits ELSE <<>>]

\* await this.es.<api>(request, {ignore}): a request whose evaluation throws
\* ends the method before any call; otherwise the engine answers the call and
\* the method goes on with the body, or ends with the error the client throws.
Await(f, request, ignore, fault, Then(_, _, _)) ==
    IF request.threw THEN Finish(f, request, NoCall) /\ UNCHANGED engineVars
    ELSE LET req == request.value
             r == Engine(req)
             out == Transport(fault, r, ignore)
             seen == Seen(req, r, fault)
             g == [f EXCEPT !.calls = @ + 1, !.sent = Append(@, Sent(req, seen))]
         IN  /\ IF fault = "none"
                THEN esExists' = r.exists /\ esDocs' = r.docs
                ELSE UNCHANGED engineVars
             /\ IF out.threw THEN Finish(g, out, seen) ELSE Then(g, out.value, seen)

\* An accessor without the guard: it hands out whatever the metadata holds.
index_unguarded ==
    LET meta == getDocumentMetadata(entityCtor)
    IN  Return(IF IsUndefined(meta) THEN Undefined ELSE meta.index)

\* An accessor that keeps the index name the repository was first bound to.
index_cached ==
    LET meta == getDocumentMetadata(entityCtor)
    IN  IF IsUndefined(meta) THEN Throw("ConfigurationError")
        ELSE Return(JsStr("products"))

\* get index(): the Document Declaration's index, or the configuration error.
index ==
    LET meta == getDocumentMetadata(entityCtor)
    IN  IF IsUndefined(meta) THEN Throw("ConfigurationError") ELSE Return(meta.index)

isBoolean(res) == "boolean" \in DOMAIN res

\* A request object literal that reads this.index.
Request(r(_)) == IF index.threw THEN index ELSE Return(r(index.value))

\* createEntity(source)
createEntity(source) == Instance(entityCtor, source)

indexExists(p) ==
    /\ task[p] = Idle
    /\ UNCHANGED metaVars
    /\ \E fault \in Faults :
        Await(Frame(p, "indexExists", <<>>),
              Request(LAMBDA i : [api |-> "indices.exists", index |-> i]), {}, fault,
              LAMBDA f, res, seen :
                  Finish(f, Return(IF isBoolean(res) THEN res ELSE JsBool(FALSE)), seen))

\* The statuses deleteIndex tells the client to ignore.
deleteIndexIgnore == {404}

deleteIndex(p) ==
    /\ task[p] = Idle
    /\ UNCHANGED metaVars
    /\ \E fault \in Faults :
        Await(Frame(p, "deleteIndex", <<>>),
              Request(LAMBDA i : [api |-> "indices.delete", index |-> i]),
              deleteIndexIgnore, fault,
              LAMBDA f, res, seen : Finish(f, Return(Undefined), seen))

\* A call that tells the client to ignore no status.
ignoreNone == {}

\* The statuses ensureIndex tells the client to ignore.
ensureIndexIgnore == {400}

\* An ensureIndex that names its index through the index accessor.
ensureIndex_viaIndex(p) ==
    /\ task[p] = Idle
    /\ UNCHANGED metaVars
    /\ \E fault \in Faults :
        Await(Frame(p, "ensureIndex", <<>>),
              Request(LAMBDA i : [api |-> "indices.create", index |-> i,
                                  mappings |-> Undefined, settings |-> Undefined]),
              ensureIndexIgnore, fault,
              LAMBDA f, res, seen : Finish(f, Return(Undefined), seen))

ensureIndex(p) ==
    /\ task[p] = Idle
    /\ CompilesAll({entityCtor})
    /\ LET meta == buildDocumentMetadata(entityCtor).meta
       IN  IF IsUndefined(meta)
           THEN Finish(Frame(p, "ensureIndex", <<>>), Return(Undefined), NoCall)
                /\ UNCHANGED engineVars
           ELSE \E fault \in Faults :
                Await(Frame(p, "ensureIndex", <<>>),
                      Return([api |-> "indices.create", index |-> meta.index,
                              mappings |-> meta.mappings, settings |-> meta.settings]),
                      ensureIndexIgnore, fault,
                      LAMBDA f, res, seen : Finish(f, Return(Undefined), seen))

refresh(p) ==
    /\ task[p] = Idle
    /\ UNCHANGED metaVars
    /\ \E fault \in Faults :
        Await(Frame(p, "refresh", <<>>),
              Request(LAMBDA i : [api |-> "indices.refresh", index |-> i]), {}, fault,
              LAMBDA f, res, seen : Finish(f, Return(Undefined), seen))

\* indexOne(entity, id?): without an id the engine picks one no document has.
indexOne(p, entity, id) ==
    /\ task[p] = Idle
    /\ UNCHANGED metaVars
    /\ \E fault \in Faults, fresh \in Ids :
        /\ fresh \notin UNION {DOMAIN esDocs[n] : n \in IndexNames}
           \/ ~IsUndefined(id)
        /\ Await(Frame(p, "indexOne", <<entity, id>>),
                 Request(LAMBDA i : [api |-> "index", id |-> id, fresh |-> fresh,
                                     document |-> toElasticsearchDocument(entity),
                                     index |-> i]), {}, fault,
                 LAMBDA f, res, seen : Finish(f, Return(Undefined), seen))

deleteById(p, id) ==
    /\ task[p] = Idle
    /\ UNCHANGED metaVars
    /\ \E fault \in Faults :
        Await(Frame(p, "deleteById", <<id>>),
              Request(LAMBDA i : [api |-> "delete", id |-> id, index |-> i]), {}, fault,
              LAMBDA f, res, seen : Finish(f, Return(Undefined), seen))

\* An update request that leaves the caller's refresh directive out.
UpdateRequest_unrefreshed(id, doc, upsert, script, refresh_) ==
    Request(LAMBDA i : [api |-> "update", id |-> id, doc |-> doc, doc_as_upsert |-> upsert,
                        script |-> script, refresh |-> Undefined, index |-> i])

\* The update request of the update / upsert family.
UpdateRequest(id, doc, upsert, script, refresh_) ==
    Request(LAMBDA i : [api |-> "update", id |-> id, doc |-> doc, doc_as_upsert |-> upsert,
                        script |-> script, refresh |-> refresh_, index |-> i])

updateById(p, id, partial) ==
    /\ task[p] = Idle
    /\ UNCHANGED metaVars
    /\ \E fault \in Faults :
        Await(Frame(p, "updateById", <<id, partial>>),
              UpdateRequest(id, partial, FALSE, Undefined, Undefined), {}, fault,
              LAMBDA f, res, seen : Finish(f, Return(Undefined), seen))

upsertById(p, id, partial) ==
    /\ task[p] = Idle
    /\ UNCHANGED metaVars
    /\ \E fault \in Faults :
        Await(Frame(p, "upsertById", <<id, partial>>),
              UpdateRequest(id, partial, TRUE, Undefined, Undefined), {}, fault,
              LAMBDA f, res, seen : Finish(f, Return(Undefined), seen))

updateByIdScript(p, id, script) ==
    /\ task[p] = Idle
    /\ UNCHANGED metaVars
    /\ \E fault \in Faults :
        Await(Frame(p, "updateByIdScript", <<id, script>>),
              UpdateRequest(id, EmptyObj, FALSE, script, Undefined), {}, fault,
              LAMBDA f, res, seen : Finish(f, Return(Undefined), seen))

Refreshes == {Undefined, JsStr("wait_for")}

\* The read-back of the ...AndGetSource methods and of findSourceById:
\* const res = await this.es.get({id, index: this.index}); return get(res, '_source').
ReadBack(p, Then(_)) ==
    /\ UNCHANGED metaVars
    /\ \E fault \in Faults :
        Await(task[p].frame,
              Request(LAMBDA i : [api |-> "get", id |-> task[p].locals.id, index |-> i]),
              {}, fault,
              LAMBDA f, res, seen : Finish(f, Return(Then(res._source)), seen))

updateByIdAndGetSource(p, id, partial, options) ==
    /\ task[p] = Idle
    /\ UNCHANGED metaVars
    /\ \E fault \in Faults :
        Await(Frame(p, "updateByIdAndGetSource", <<id, partial, options>>),
              UpdateRequest(id, partial, FALSE, Undefined, options), {}, fault,
              LAMBDA f, res, seen : Suspend(f, "AndGetSource:get", [id |-> id]))

upsertByIdAndGetSource(p, id, partial, options) ==
    /\ task[p] = Idle
    /\ UNCHANGED metaVars
    /\ \E fault \in Faults :
        Await(Frame(p, "upsertByIdAndGetSource", <<id, partial, options>>),
              UpdateRequest(id, partial, TRUE, Undefined, options), {}, fault,
              LAMBDA f, res, seen : Suspend(f, "AndGetSource:get", [id |-> id]))

updateByIdScriptAndGetSource(p, id, script, options) ==
    /\ task[p] = Idle
    /\ UNCHANGED metaVars
    /\ \E fault \in Faults :
        Await(Frame(p, "updateByIdScriptAndGetSource", <<id, script, options>>),
              UpdateRequest(id, EmptyObj, FALSE, script, options), {}, fault,
              LAMBDA f, res, seen :
                  Suspend(f, "AndGetSource:get", [id |-> id]))

\* A second step that hands back the caller's own partial, not what it read.
AndGetSource_get_written(p) ==
    /\ task[p].at = "AndGetSource:get"
    /\ ReadBack(p, LAMBDA src : JsObj(task[p].frame.args[2]))

\* The second call of the three ...AndGetSource methods.
AndGetSource_get(p) ==
    /\ task[p].at = "AndGetSource:get"
    /\ ReadBack(p, LAMBDA src : src)

\* exists(id), as a method of its own and as findSourceById's first step.
ExistsCall(f, id, fault, Then(_, _, _)) ==
    Await(f, Request(LAMBDA i : [api |-> "exists", id |-> id, index |-> i]), {}, fault,
          LAMBDA g, res, seen : Then(g, IF isBoolean(res) THEN res ELSE JsBool(FALSE), seen))

exists(p, id) ==
    /\ task[p] = Idle
    /\ UNCHANGED metaVars
    /\ \E fault \in Faults :
        ExistsCall(Frame(p, "exists", <<id>>), id, fault,
                   LAMBDA f, found, seen : Finish(f, Return(found), seen))

findById(p, id) ==
    /\ task[p] = Idle
    /\ UNCHANGED metaVars
    /\ \E fault \in Faults :
        Await(Frame(p, "findById", <<id>>),
              Request(LAMBDA i : [api |-> "get", id |-> id, index |-> i]), {}, fault,
              LAMBDA f, res, seen : Finish(f, Return(res), seen))

\* findSourceById(id): the existence check, then (when found) the read.
findSourceById(p, id) ==
    /\ task[p] = Idle
    /\ UNCHANGED metaVars
    /\ \E fault \in Faults :
        ExistsCall(Frame(p, "findSourceById", <<id>>), id, fault,
                   LAMBDA f, found, seen :
                       IF ~found.boolean THEN Finish(f, Return(Undefined), seen)
                       ELSE Suspend(f, "findSourceById:get", [id |-> id]))

\* The read of findSourceById, for itself or for findEntityById's hydration.
findSourceById_get(p) ==
    /\ task[p].at = "findSourceById:get"
    /\ ReadBack(p, LAMBDA src : IF task[p].frame.op = "findSourceById" THEN src
                                ELSE IF IsNil(src) THEN Undefined
                                ELSE createEntity(src.object))

\* findEntityById(id): findSourceById, then hydration.
findEntityById(p, id) ==
    /\ task[p] = Idle
    /\ UNCHANGED metaVars
    /\ \E fault \in Faults :
        ExistsCall(Frame(p, "findEntityById", <<id>>), id, fault,
                   LAMBDA f, found, seen :
                       IF ~found.boolean THEN Finish(f, Return(Undefined), seen)
                       ELSE Suspend(f, "findSourceById:get", [id |-> id]))

\* ------------------------------------------------------------------- bulk

RECURSIVE Concat(_)
Concat(ss) == IF ss = <<>> THEN <<>> ELSE Head(ss) \o Concat(Tail(ss))

\* Sequences of distinct ids no document has, one per new document.
FreshIds(n) ==
    {fs \in [1..n -> Ids] :
        /\ \A a, b \in 1..n : a # b => fs[a] # fs[b]
        /\ \A a \in 1..n : fs[a] \notin UNION {DOMAIN esDocs[x] : x \in IndexNames}}

\* await this.es.bulk({operations})
BulkCall(f, operations, fresh, fault) ==
    Await(f,
          IF operations.threw THEN operations
          ELSE Return([api |-> "bulk", operations |-> operations.value, fresh |-> fresh]),
          {}, fault,
          LAMBDA g, res, seen : Finish(g, Return(Undefined), seen))

\* A bulk index that builds its operations from the last entity to the first.
bulkIndex_lastFirst(p, entities) ==
    /\ task[p] = Idle
    /\ UNCHANGED metaVars
    /\ IF entities = <<>>
       THEN Finish(Frame(p, "bulkIndex", <<entities>>), Return(Undefined), NoCall)
            /\ UNCHANGED engineVars
       ELSE \E fault \in Faults, fresh \in FreshIds(Len(entities)) :
            BulkCall(Frame(p, "bulkIndex", <<entities>>),
                     Request(LAMBDA i : Concat([k \in DOMAIN entities |->
                         <<[action |-> "index", _id |-> Undefined, _index |-> i],
                           [body |-> toElasticsearchDocument(
                                         entities[Len(entities) + 1 - k])]>>])),
                     fresh, fault)

bulkIndex(p, entities) ==
    /\ task[p] = Idle
    /\ UNCHANGED metaVars
    /\ IF entities = <<>>
       THEN Finish(Frame(p, "bulkIndex", <<entities>>), Return(Undefined), NoCall)
            /\ UNCHANGED engineVars
       ELSE \E fault \in Faults, fresh \in FreshIds(Len(entities)) :
            BulkCall(Frame(p, "bulkIndex", <<entities>>),
                     Request(LAMBDA i : Concat([k \in DOMAIN entities |->
                         <<[action |-> "index", _id |-> Undefined, _index |-> i],
                           [body |-> toElasticsearchDocument(entities[k])]>>])),
                     fresh, fault)

\* A bulk delete that sends its batch even when it is empty.
bulkDeleteByIds_always(p, ids) ==
    /\ task[p] = Idle
    /\ UNCHANGED metaVars
    /\ \E fault \in Faults :
            BulkCall(Frame(p, "bulkDeleteByIds", <<ids>>),
                     Request(LAMBDA i : [k \in DOMAIN ids |->
                         [action |-> "delete", _id |-> ids[k], _index |-> i]]),
                     <<>>, fault)

bulkDeleteByIds(p, ids) ==
    /\ task[p] = Idle
    /\ UNCHANGED metaVars
    /\ IF ids = <<>>
       THEN Finish(Frame(p, "bulkDeleteByIds", <<ids>>), Return(Undefined), NoCall)
            /\ UNCHANGED engineVars
       ELSE \E fault \in Faults :
            BulkCall(Frame(p, "bulkDeleteByIds", <<ids>>),
                     Request(LAMBDA i : [k \in DOMAIN ids |->
                         [action |-> "delete", _id |-> ids[k], _index |-> i]]),
                     <<>>, fault)

bulkUpdateByIds(p, updates) ==
    /\ task[p] = Idle
    /\ UNCHANGED metaVars
    /\ IF updates = <<>>
       THEN Finish(Frame(p, "bulkUpdateByIds", <<updates>>), Return(Undefined), NoCall)
            /\ UNCHANGED engineVars
       ELSE \E fault \in Faults :
            BulkCall(Frame(p, "bulkUpdateByIds", <<updates>>),
                     Request(LAMBDA i : Concat([k \in DOMAIN updates |->
                         <<[action |-> "update", _id |-> updates[k].id, _index |-> i],
                           [body |-> updates[k].doc]>>])),
                     <<>>, fault)

\* A projection that keeps only the documents found; mgetSources must not be it.
mgetProject_compact(docs) ==
    LET kept == SelectSeq(docs, LAMBDA d : d.found)
    IN  [k \in DOMAIN kept |-> kept[k]._source]

\* map(docs, (d) => (get(d, 'found') ? get(d, '_source') : undefined))
mgetProject(docs) ==
    [k \in DOMAIN docs |-> IF docs[k].found THEN docs[k]._source ELSE Undefined]

mgetSources(p, ids) ==
    /\ task[p] = Idle
    /\ UNCHANGED metaVars
    /\ IF ids = <<>>
       THEN Finish(Frame(p, "mgetSources", <<ids>>), Return(<<>>), NoCall)
            /\ UNCHANGED engineVars
       ELSE \E fault \in Faults :
            Await(Frame(p, "mgetSources", <<ids>>),
                  Request(LAMBDA i : [api |-> "mget",
                                      docs |-> [k \in DOMAIN ids |->
                                                   [_id |-> ids[k], _index |-> i]]]),
                  {}, fault,
                  LAMBDA f, res, seen : Finish(f, Return(mgetProject(res.docs)), seen))

\* ------------------------------------------------------------ query-based

count(p, query) ==
    /\ task[p] = Idle
    /\ UNCHANGED metaVars
    /\ \E fault \in Faults :
        Await(Frame(p, "count", <<query>>),
              Request(LAMBDA i : [api |-> "count", index |-> i, query |-> query]), {}, fault,
              LAMBDA f, res, seen : Finish(f, Return(JsNum(res.count)), seen))

deleteByQuery(p, query) ==
    /\ task[p] = Idle
    /\ UNCHANGED metaVars
    /\ \E fault \in Faults :
        Await(Frame(p, "deleteByQuery", <<query>>),
              Request(LAMBDA i : [api |-> "deleteByQuery", index |-> i, query |-> query]),
              {}, fault,
              LAMBDA f, res, seen : Finish(f, Return(Undefined), seen))

updateByQueryRaw(p, params) ==
    /\ task[p] = Idle
    /\ UNCHANGED metaVars
    /\ \E fault \in Faults :
        Await(Frame(p, "updateByQueryRaw", <<params>>),
              Request(LAMBDA i : [api |-> "updateByQuery", index |-> i,
                                  query |-> params.query, script |-> params.script]),
              {}, fault,
              LAMBDA f, res, seen : Finish(f, Return(res), seen))

updateByQueryScript(p, args) ==
    /\ task[p] = Idle
    /\ UNCHANGED metaVars
    /\ \E fault \in Faults :
        Await(Frame(p, "updateByQueryScript", <<args>>),
              Request(LAMBDA i : [api |-> "updateByQuery", index |-> i,
                                  query |-> args.query, script |-> args.script]),
              {}, fault,
              LAMBDA f, res, seen : Finish(f, Return(res), seen))

\* ----------------------------------------------------------------- search

SearchParams ==
    {[query |-> q, size |-> n, sort |-> st] :
        q \in Queries, n \in {Undefined, JsNum(2)}, st \in {Undefined, JsStr("name")}}

\* this.es.search({index: this.index, ...params})
SearchCall(f, params, fault, bare, Then(_, _, _)) ==
    Await(f, Request(LAMBDA i : [api |-> "search", index |-> i, bare |-> bare,
                                 query |-> params.query, size |-> params.size,
                                 sort |-> params.sort]),
          {}, fault, Then)

\* The hits the engine may answer without their source (none when the
\* request is never sent).
Sourceless == IF index.threw THEN {{}} ELSE SUBSET Ids

first(seq) == IF seq = <<>> THEN Undefined ELSE Head(seq)

\* A projection that keeps a slot for every hit, with or without a source.
SourcesOf_unfiltered(hits) == [k \in DOMAIN hits |-> hits[k]._source]

\* filter(map(hits, (h) => get(h, '_source')), (s) => !isNil(s))
SourcesOf(hits) ==
    LET kept == SelectSeq(hits, LAMBDA h : ~IsNil(h._source))
    IN  [k \in DOMAIN kept |-> kept[k]._source]

\* filter(map(hits, (h) => toString(get(h, '_id'))), (id) => !!id)
IdsOf(hits) ==
    LET kept == SelectSeq(hits, LAMBDA h : ~IsNil(h._id) /\ h._id # JsStr(""))
    IN  [k \in DOMAIN kept |-> kept[k]._id]

\* One hit with its metadata: {id, index, score: _score ?? null, source}.
WithMeta(h) ==
    [id |-> h._id, index |-> h._index,
     score |-> IF IsNil(h._score) THEN Null ELSE h._score, source |-> h._source]

MetaOf(hits) ==
    LET kept == SelectSeq(hits, LAMBDA h : ~IsNil(h._source))
    IN  [k \in DOMAIN kept |-> WithMeta(kept[k])]

searchRaw(p, params) ==
    /\ task[p] = Idle
    /\ UNCHANGED metaVars
    /\ \E fault \in Faults, bare \in Sourceless :
        SearchCall(Frame(p, "searchRaw", <<params>>), params, fault, bare,
                   LAMBDA f, res, seen : Finish(f, Return(res), seen))

search(p, params) ==
    /\ task[p] = Idle
    /\ UNCHANGED metaVars
    /\ \E fault \in Faults, bare \in Sourceless :
        SearchCall(Frame(p, "search", <<params>>), params, fault, bare,
                   LAMBDA f, res, seen : Finish(f, Return(res), seen))

searchSources(p, params) ==
    /\ task[p] = Idle
    /\ UNCHANGED metaVars
    /\ \E fault \in Faults, bare \in Sourceless :
        SearchCall(Frame(p, "searchSources", <<params>>), params, fault, bare,
                   LAMBDA f, res, seen : Finish(f, Return(SourcesOf(res.hits.hits)), seen))

searchEntities(p, params) ==
    /\ task[p] = Idle
    /\ UNCHANGED metaVars
    /\ \E fault \in Faults, bare \in Sourceless :
        SearchCall(Frame(p, "searchEntities", <<params>>), params, fault, bare,
                   LAMBDA f, res, seen :
                       Finish(f, Return([k \in DOMAIN SourcesOf(res.hits.hits) |->
                                            createEntity(SourcesOf(res.hits.hits)[k].object)]),
                              seen))

searchIds(p, params) ==
    /\ task[p] = Idle
    /\ UNCHANGED metaVars
    /\ \E fault \in Faults, bare \in Sourceless :
        SearchCall(Frame(p, "searchIds", <<params>>), params, fault, bare,
                   LAMBDA f, res, seen : Finish(f, Return(IdsOf(res.hits.hits)), seen))

searchFirstSource(p, params) ==
    /\ task[p] = Idle
    /\ UNCHANGED metaVars
    /\ \E fault \in Faults, bare \in Sourceless :
        SearchCall(Frame(p, "searchFirstSource", <<params>>),
                   [params EXCEPT !.size = JsNum(1)], fault, bare,
                   LAMBDA f, res, seen :
                       Finish(f, Return(IF IsUndefined(first(res.hits.hits)) THEN Undefined
                                        ELSE first(res.hits.hits)._source), seen))

searchSourcesWithMeta(p, params) ==
    /\ task[p] = Idle
    /\ UNCHANGED metaVars
    /\ \E fault \in Faults, bare \in Sourceless :
        SearchCall(Frame(p, "searchSourcesWithMeta", <<params>>), params, fault, bare,
                   LAMBDA f, res, seen : Finish(f, Return(MetaOf(res.hits.hits)), seen))

searchFirstSourceWithMeta(p, params) ==
    /\ task[p] = Idle
    /\ UNCHANGED metaVars
    /\ \E fault \in Faults, bare \in Sourceless :
        SearchCall(Frame(p, "searchFirstSourceWithMeta", <<params>>),
                   [params EXCEPT !.size = JsNum(1)], fault, bare,
                   LAMBDA f, res, seen :
                       Finish(f, Return(IF IsNil(first(res.hits.hits)) THEN Undefined
                                        ELSE IF IsNil(first(res.hits.hits)._source) THEN Undefined
                                        ELSE WithMeta(first(res.hits.hits))), seen))

searchFirstEntity(p, params) ==
    /\ task[p] = Idle
    /\ UNCHANGED metaVars
    /\ \E fault \in Faults, bare \in Sourceless :
        SearchCall(Frame(p, "searchFirstEntity", <<params>>),
                   [params EXCEPT !.size = JsNum(1)], fault, bare,
                   LAMBDA f, res, seen :
                       Finish(f, Return(IF IsUndefined(first(res.hits.hits)) THEN Undefined
                                        ELSE IF IsNil(first(res.hits.hits)._source) THEN Undefined
                                        ELSE createEntity(first(res.hits.hits)._source.object)),
                              seen))

\* ------------------------------------------------- repository: behaviours

\* Document Declarations the repository's entity may carry: none, or index
\* "products" with no settings, with one shard, or with a shard count the
\* engine rejects.
DocumentOptions(index_, settings) ==
    [index |-> JsStr(index_), type |-> Undefined, mappings |-> Undefined,
     settings |-> settings]
RepoDeclarations ==
    {Undefined} \cup
    {DocumentOptions("products", st) :
        st \in {Undefined} \cup {JsObj([k \in {"number_of_shards"} |-> JsNum(n)]) : n \in {0, 1}}}

NoMetadata == [c \in Classes |-> Undefined]
NoMaps == [c \in Classes |-> <<>>]
NoLast ==
    [proc |-> "none", op |-> "none", args |-> <<>>, calls |-> 0, sent |-> <<>>,
     again |-> FALSE, threw |-> FALSE,
     value |-> Undefined, error |-> "none", seen |-> NoCall]

\* No module has started and nothing has been projected.
NoBoot == [at |-> "new", threw |-> FALSE]
NoProjection == [instance |-> Undefined, declared |-> {}, document |-> EmptyObj]
NoCompiled ==
    [target |-> "none", first |-> Undefined, touched |-> "none", again |-> FALSE,
     then |-> Undefined]
NoShutdown == [at |-> "no", closers |-> <<>>]
NoToken == [of |-> "none", entity |-> <<>>, name |-> Undefined, token |-> <<>>]
Quiet ==
    /\ moduleOptions = [clients |-> <<>>, documents |-> <<>>, autoCreateIndices |-> FALSE]
    /\ nameToClient = EmptyObj
    /\ boot = NoBoot
    /\ creations = <<>>
    /\ created = <<>>
    /\ shutdown = NoShutdown
    /\ projected = NoProjection
    /\ compiled = NoCompiled
    /\ derived = NoToken

\* The state after construction: the entity class carries one of the given
\* Document Declarations and one Field Declaration; the engine holds no document.
Start(declarations) ==
    /\ documentMeta \in {[NoMetadata EXCEPT ![entityCtor] = d] : d \in declarations}
    /\ fieldsMeta = [NoMetadata EXCEPT ![entityCtor] = [map |-> entityCtor]]
    /\ maps = [NoMaps EXCEPT ![entityCtor] =
                  <<[key |-> "name", options |-> JsObj([k \in {"type"} |-> JsStr("text")])]>>]
    /\ indexMeta = NoMetadata
    /\ esExists \in SUBSET {"products"}
    /\ esDocs = [n \in IndexNames |-> NoDocs]
    /\ task = [p \in Procs |-> Idle]
    /\ last = NoLast
    /\ Quiet

Updates == {[id |-> id, doc |-> doc] : id \in Ids, doc \in Partials}
ByQueryParams == {[query |-> q, script |-> sc] : q \in Queries, sc \in Scripts \cup {Undefined}}

\* The index the repository's entity declares ("" when it declares none).
DeclaredIndex == IF index.threw THEN "" ELSE Name(index.value)
Declared == ~IsUndefined(getDocumentMetadata(entityCtor))

\* ---- single documents, read and written by concurrent callers

Next ==
    \E p \in Procs :
        \/ indexExists(p)
        \/ deleteIndex(p)
        \/ ensureIndex(p)
        \/ refresh(p)
        \/ \E e \in EntityInstances, id \in Ids \cup {Undefined} : indexOne(p, e, id)
        \/ \E id \in Ids : deleteById(p, id)
        \/ \E id \in Ids : exists(p, id)
        \/ \E id \in Ids : findById(p, id)
        \/ \E id \in Ids : findSourceById(p, id)
        \/ findSourceById_get(p)
        \/ \E ids \in SeqsUpTo(Ids, MaxIds) : mgetSources(p, ids)

Spec == Start({Undefined, DocumentOptions("products", Undefined)}) /\ [][Next]_vars

\* C1: a mgetSources call that returns gives back one slot per input id, in
\* input order: slot i holds the body stored under ids[i] when the call was
\* answered, and is undefined when no document had that id.
MgetSourcesAligned ==
    (last.op = "mgetSources" /\ ~last.threw) =>
        LET ids == last.args[1]
            stored == last.seen.held[DeclaredIndex]
        IN  /\ Len(last.value) = Len(ids)
            /\ \A i \in 1..Len(ids) :
                   last.value[i] = IF ids[i] \in DOMAIN stored
                                   THEN JsObj(stored[ids[i]]) ELSE Undefined

\* C1 happens: a returned mgetSources whose ids name a missing document before
\* a stored one and name a stored document twice.
MgetSourcesMixed ==
    /\ last.op = "mgetSources" /\ ~last.threw
    /\ \E i, j \in 1..Len(last.value) :
          i < j /\ last.value[i] = Undefined /\ last.value[j] # Undefined
    /\ \E i, j \in 1..Len(last.value) :
          i # j /\ last.args[1][i] = last.args[1][j] /\ last.value[i] # Undefined

\* C2: findSourceById never ends with the engine's not-found failure; it
\* returns the body or undefined, whatever other callers do meanwhile.
FindSourceByIdNeverNotFound ==
    ~(last.op = "findSourceById" /\ last.threw /\ last.error = "ResponseError 404")

\* ---- the index lifecycle, over the Document Declarations of RepoDeclarations

NextLifecycle ==
    \E p \in Procs :
        \/ indexExists(p)
        \/ deleteIndex(p)
        \/ ensureIndex(p)
        \/ refresh(p)
        \/ \E e \in EntityInstances, id \in Ids : indexOne(p, e, id)
        \/ \E id \in Ids : deleteById(p, id)
        \/ \E id \in Ids : exists(p, id)

SpecLifecycle == Start(RepoDeclarations) /\ [][NextLifecycle]_vars

\* The engine answered the last call (no connection fault cut it short).
Answered == last.calls > 0 /\ last.seen.status # 0

\* C7: with a declaration whose index body the engine can build, and the
\* engine answering, every ensureIndex
\* returns and leaves the index existing, and every deleteIndex returns and
\* leaves it absent, from any index state: so does a call that repeats the
\* one before it.
LifecycleIdempotent ==
    /\ (/\ last.op = "ensureIndex" /\ Declared /\ Answered
        /\ EngineAccepts([settings |-> buildDocumentMetadata(entityCtor).meta.settings])) =>
           ~last.threw /\ DeclaredIndex \in esExists
    /\ (last.op = "deleteIndex" /\ Declared /\ Answered) =>
           ~last.threw /\ DeclaredIndex \notin esExists

\* C7 happens: an ensureIndex right after an ensureIndex that returned, answered
\* by the engine with its already-exists conflict.
EnsureIndexTwice ==
    /\ last.op = "ensureIndex" /\ last.again /\ ~last.threw
    /\ last.seen.type = "resource_already_exists_exception"
    /\ DeclaredIndex \in esExists

\* C8: an ensureIndex whose creation call failed for any reason other than the
\* already-exists conflict ends with that failure.
EnsureIndexSwallowsOnlyConflict ==
    (/\ last.op = "ensureIndex" /\ last.calls = 1
     /\ last.seen.status = 0 \/ last.seen.status >= 300
     /\ last.seen.type # "resource_already_exists_exception") => last.threw

\* ---- every method, on an entity class without a Document Declaration

NextNoDocument ==
    \E p \in Procs :
        \/ indexExists(p)
        \/ deleteIndex(p)
        \/ ensureIndex(p)
        \/ refresh(p)
        \/ \E e \in EntityInstances, id \in Ids \cup {Undefined} : indexOne(p, e, id)
        \/ \E es \in SeqsUpTo(EntityInstances, MaxBulk) : bulkIndex(p, es)
        \/ \E ids \in SeqsUpTo(Ids, MaxIds) : bulkDeleteByIds(p, ids)
        \/ \E us \in SeqsUpTo(Updates, MaxBulk) : bulkUpdateByIds(p, us)
        \/ \E id \in Ids : deleteById(p, id)
        \/ \E id \in Ids, d \in Partials : updateById(p, id, d)
        \/ \E id \in Ids, d \in Partials : upsertById(p, id, d)
        \/ \E id \in Ids, sc \in Scripts : updateByIdScript(p, id, sc)
        \/ \E id \in Ids, d \in Partials, o \in Refreshes : updateByIdAndGetSource(p, id, d, o)
        \/ \E id \in Ids, d \in Partials, o \in Refreshes : upsertByIdAndGetSource(p, id, d, o)
        \/ \E id \in Ids, sc \in Scripts, o \in Refreshes :
               updateByIdScriptAndGetSource(p, id, sc, o)
        \/ \E id \in Ids : exists(p, id)
        \/ \E id \in Ids : findById(p, id)
        \/ \E id \in Ids : findSourceById(p, id)
        \/ \E id \in Ids : findEntityById(p, id)
        \/ \E ids \in SeqsUpTo(Ids, MaxIds) : mgetSources(p, ids)
        \/ \E q \in Queries : count(p, q)
        \/ \E q \in Queries : deleteByQuery(p, q)
        \/ \E a \in ByQueryParams : updateByQueryRaw(p, a)
        \/ \E a \in {x \in ByQueryParams : x.script # Undefined} : updateByQueryScript(p, a)
        \/ \E a \in SearchParams : searchRaw(p, a)
        \/ \E a \in SearchParams : search(p, a)
        \/ \E a \in SearchParams : searchSources(p, a)
        \/ \E a \in SearchParams : searchEntities(p, a)
        \/ \E a \in SearchParams : searchIds(p, a)
        \/ \E a \in SearchParams : searchFirstSource(p, a)
        \/ \E a \in SearchParams : searchSourcesWithMeta(p, a)
        \/ \E a \in SearchParams : searchFirstSourceWithMeta(p, a)
        \/ \E a \in SearchParams : searchFirstEntity(p, a)

SpecNoDocument == Start({Undefined}) /\ [][NextNoDocument]_vars

\* C3: without a Document Declaration every method that reads the index (all
\* but ensureIndex, and but the bulk and multi-get methods on an empty input)
\* ends with the configuration error and has made no call to the connection.
NoDeclarationFailsFast ==
    (/\ ~Declared
     /\ last.op \notin {"none", "ensureIndex"}
     /\ last.op \in {"bulkIndex", "bulkDeleteByIds", "bulkUpdateByIds", "mgetSources"}
            => last.args[1] # <<>>) =>
        /\ last.threw /\ last.error = "ConfigurationError"
        /\ last.calls = 0 /\ last.seen = NoCall

\* C3 happens: bulkIndex of a non-empty batch ended with the configuration error.
BulkIndexFailedFast ==
    /\ ~Declared
    /\ last.op = "bulkIndex" /\ Len(last.args[1]) > 0
    /\ last.threw /\ last.error = "ConfigurationError" /\ last.calls = 0

\* C4: without a Document Declaration ensureIndex returns and has made no call
\* to the connection.
EnsureIndexNoOp ==
    (~Declared /\ last.op = "ensureIndex") =>
        ~last.threw /\ last.calls = 0 /\ last.seen = NoCall

\* C4 happens: an ensureIndex returned on an entity without a Document Declaration.
EnsureIndexSkipped ==
    ~Declared /\ last.op = "ensureIndex" /\ ~last.threw /\ last.calls = 0

\* ------------------------------------------------------ connection registry

\* Strings whose letters matter (connection, entity and token names) are
\* sequences of characters.
ES_DEFAULT_CLIENT_NAME == <<"d", "e", "f", "a", "u", "l", "t">>

\* The upper-case letter of every lower-case letter.
UpperCase ==
    [a |-> "A", b |-> "B", c |-> "C", d |-> "D", e |-> "E", f |-> "F", g |-> "G",
     h |-> "H", i |-> "I", j |-> "J", k |-> "K", l |-> "L", m |-> "M", n |-> "N",
     o |-> "O", p |-> "P", q |-> "Q", r |-> "R", s |-> "S", t |-> "T", u |-> "U",
     v |-> "V", w |-> "W", x |-> "X", y |-> "Y", z |-> "Z"]

\* String.prototype.toLowerCase
toLowerCase(s) ==
    [i \in DOMAIN s |->
        IF \E c \in DOMAIN UpperCase : UpperCase[c] = s[i]
        THEN CHOOSE c \in DOMAIN UpperCase : UpperCase[c] = s[i] ELSE s[i]]

\* lodash toUpper
toUpper(s) == [i \in DOMAIN s |-> IF s[i] \in DOMAIN UpperCase THEN UpperCase[s[i]] ELSE s[i]]

\* lodash trim(value): the string without its leading and trailing blanks ("" for undefined).
trim(value) ==
    LET s == IF IsUndefined(value) THEN <<>> ELSE value.string
        solid == {i \in DOMAIN s : s[i] # " "}
    IN  IF solid = {} THEN <<>>
        ELSE SubSeq(s, CHOOSE i \in solid : \A j \in solid : i <= j,
                       CHOOSE i \in solid : \A j \in solid : i >= j)

\* normalizeName(name) == toLower(trim(name) || 'default')
normalizeName(name) ==
    toLowerCase(IF trim(name) = <<>> THEN ES_DEFAULT_CLIENT_NAME ELSE trim(name))

\* for (const def of options.clients)
\*     nameToClient.set((def.name || 'default').toLowerCase(), client):
\* the registry after the definitions from the k-th on (the client of the k-th
\* definition is the (made + k)-th client ever made).
RECURSIVE configure(_, _, _, _)
configure(registry, clients, k, made) ==
    IF k > Len(clients) THEN registry
    ELSE LET def == clients[k]
             raw == IF IsUndefined(def.name) \/ def.name = JsStr(<<>>)
                    THEN ES_DEFAULT_CLIENT_NAME ELSE def.name.string
         IN  configure(Put(registry, toLowerCase(raw), made + k), clients, k + 1, made)

\* An iteration over every client ever made, registered or not.
values_everMade(registry) == DOMAIN created

\* nameToClient.values()
values(registry) == {registry[n] : n \in DOMAIN registry}

\* ElasticsearchService.configure(options) on a registry and the clients made
\* so far: the registry and the clients after it.  A client that was in the
\* registry, or was put there by this call, and is not there when the call
\* ends has been replaced.
ElasticsearchService_configure(registry, heap, clients) ==
    LET made == Len(heap)
        after == configure(registry, clients, 1, made)
    IN  [nameToClient |-> after,
         created |->
             [c \in 1..(made + Len(clients)) |->
                 IF c <= made
                 THEN [heap[c] EXCEPT
                          !.replaced = @ \/ (c \in values(registry) /\ c \notin values(after))]
                 ELSE [name |-> clients[c - made].name, closes |-> 0,
                       replaced |-> c \notin values(after)]]]

\* ElasticsearchService.get(name)
ElasticsearchService_get(name) ==
    LET key == toLowerCase(name)
    IN  IF key \in DOMAIN nameToClient THEN Return(nameToClient[key])
        ELSE Throw("Elasticsearch client not found")

\* ------------------------------------------------------- auto-provisioning

\* Longest list of entity classes handed to the module.
MaxDocuments == 3

\* The statuses onModuleInit tells the client to ignore.
autoCreateIgnore == {400}

\* A settling that waits for the first promise only.
race(promises) == \E i \in DOMAIN promises : promises[i].state # "pending"

\* Promise.allSettled(promises) has settled: every promise has.
allSettled(promises) == \A i \in DOMAIN promises : promises[i].state # "pending"

\* onModuleInit up to its await: the early returns, the default connection,
\* then one creation call per Schema Descriptor, all issued before waiting.
onModuleInit ==
    /\ boot.at = "new"
    /\ UNCHANGED <<engineVars, task, last, moduleOptions, nameToClient, created, shutdown,
                   projected, callVars>>
    /\ IF ~moduleOptions.autoCreateIndices \/ moduleOptions.documents = <<>>
       THEN /\ boot' = [at |-> "done", threw |-> FALSE]
            /\ UNCHANGED <<metaVars, creations>>
       ELSE LET client == ElasticsearchService_get(ES_DEFAULT_CLIENT_NAME)
                docs == SelectSeq(moduleOptions.documents,
                                  LAMBDA doc : ~IsUndefined(buildDocumentMetadata(doc).meta))
            IN  IF client.threw
                THEN /\ boot' = [at |-> "done", threw |-> TRUE]
                     /\ UNCHANGED <<metaVars, creations>>
                ELSE /\ CompilesAll({moduleOptions.documents[i] :
                                        i \in DOMAIN moduleOptions.documents})
                     /\ creations' =
                            [i \in DOMAIN docs |->
                                LET meta == buildDocumentMetadata(docs[i]).meta
                                IN  [request |-> [api |-> "indices.create",
                                                  index |-> meta.index,
                                                  mappings |-> meta.mappings,
                                                  settings |-> meta.settings],
                                     client |-> client.value,
                                     state |-> "pending", type |-> "pending"]]
                     /\ boot' = [at |-> "awaiting", threw |-> FALSE]

\* The engine answers (or the connection fails) one of the creation calls in flight.
creationSettles(i) ==
    /\ i \in DOMAIN creations
    /\ creations[i].state = "pending"
    /\ UNCHANGED <<metaVars, task, last, moduleOptions, nameToClient, boot, created,
                   shutdown, projected, callVars>>
    /\ \E fault \in Faults :
        LET r == Engine(creations[i].request)
            out == Transport(fault, r, autoCreateIgnore)
        IN  /\ IF fault = "none"
               THEN esExists' = r.exists /\ esDocs' = r.docs
               ELSE UNCHANGED engineVars
            /\ creations' = [creations EXCEPT
                   ![i].state = IF out.threw THEN "rejected" ELSE "fulfilled",
                   ![i].type = IF fault = "none" THEN r.type ELSE fault]

\* await Promise.allSettled(creations) resumes; onModuleInit returns.
onModuleInit_settled ==
    /\ boot.at = "awaiting"
    /\ allSettled(creations)
    /\ boot' = [at |-> "done", threw |-> FALSE]
    /\ UNCHANGED <<metaVars, engineVars, task, last, moduleOptions, nameToClient,
                   creations, created, shutdown, projected, callVars>>

\* ---- start-up: the service is configured, then the module initializes

\* Connection definitions by name: unnamed, or named in some letter case.
ClientLists ==
    {<<>>, <<[name |-> Undefined]>>,
     <<[name |-> JsStr(<<"D", "e", "f", "a", "u", "l", "t">>)]>>,
     <<[name |-> JsStr(<<"a", "n">>)]>>,
     <<[name |-> JsStr(<<"a", "n">>)], [name |-> JsStr(<<>>)]>>}

ModuleOptions ==
    [clients : ClientLists,
     documents : SeqsUpTo({"Product", "Order"}, MaxDocuments),
     autoCreateIndices : BOOLEAN]

InitModule ==
    /\ documentMeta \in
           {[NoMetadata EXCEPT !["Product"] = p, !["Order"] = o] :
               p \in {Undefined, DocumentOptions("products", Undefined)},
               o \in {Undefined, DocumentOptions("orders", Undefined)}}
    /\ fieldsMeta = [NoMetadata EXCEPT ![entityCtor] = [map |-> entityCtor]]
    /\ maps = [NoMaps EXCEPT ![entityCtor] =
                  <<[key |-> "name", options |-> JsObj([k \in {"type"} |-> JsStr("text")])]>>]
    /\ indexMeta = NoMetadata
    /\ esExists \in SUBSET IndexNames
    /\ esDocs = [n \in IndexNames |-> NoDocs]
    /\ task = [p \in Procs |-> Idle]
    /\ last = NoLast
    /\ moduleOptions \in ModuleOptions
    /\ nameToClient =
           ElasticsearchService_configure(EmptyObj, <<>>, moduleOptions.clients).nameToClient
    /\ boot = NoBoot
    /\ creations = <<>>
    /\ created = ElasticsearchService_configure(EmptyObj, <<>>, moduleOptions.clients).created
    /\ shutdown = NoShutdown
    /\ projected = NoProjection
    /\ compiled = NoCompiled
    /\ derived = NoToken

NextModule ==
    \/ onModuleInit
    \/ \E i \in 1..MaxDocuments : creationSettles(i)
    \/ onModuleInit_settled

SpecModule == InitModule /\ [][NextModule]_vars

\* The listed classes that have a Document Declaration, in list order.
ListedDeclared ==
    SelectSeq(moduleOptions.documents, LAMBDA doc : ~IsUndefined(getDocumentMetadata(doc)))

\* C5: auto-provisioning with the flag on over a non-empty list of classes,
\* none with a Document Declaration, returns without error and issues no
\* creation call, whatever connections are registered.
AutoProvisionUndeclaredNoOp ==
    (/\ boot.at = "done"
     /\ moduleOptions.autoCreateIndices
     /\ moduleOptions.documents # <<>>
     /\ ListedDeclared = <<>>) => ~boot.threw /\ creations = <<>>

\* C6: once auto-provisioning has resolved the default connection, it has
\* issued one creation call per listed class with a Document Declaration, in
\* list order, and none else, all of them by the time it waits; it ends only
\* when every call has settled, and then returns whatever their outcomes.
AutoProvisionAllSettled ==
    /\ boot.at = "new" => creations = <<>>
    /\ (boot.at = "awaiting" \/ (boot.at = "done" /\ ~boot.threw
                                 /\ moduleOptions.autoCreateIndices)) =>
           /\ Len(creations) = Len(ListedDeclared)
           /\ \A i \in DOMAIN creations :
                  creations[i].request.index = getDocumentMetadata(ListedDeclared[i]).index
    /\ boot.at = "done" => \A i \in DOMAIN creations : creations[i].state # "pending"
    /\ (boot.at = "done" /\ ES_DEFAULT_CLIENT_NAME \in DOMAIN nameToClient) => ~boot.threw

\* C6 happens: auto-provisioning returned over a list with an undeclared class,
\* after a creation call that failed and one that met an existing index.
AutoProvisionMixedOutcomes ==
    /\ boot.at = "done" /\ ~boot.threw
    /\ Len(creations) < Len(moduleOptions.documents)
    /\ \E i, j \in DOMAIN creations :
          /\ creations[i].state = "rejected"
          /\ creations[j].type = "resource_already_exists_exception"

\* ---- field declarations on a class, and projections of its instances

\* The declared names (one of them a path) and the options they are given.
FieldNames == {"id", "name", "a.b"}
FieldOptions == {JsObj([k \in {"type"} |-> JsStr(t)]) : t \in {"text", "keyword"}}

\* What an instance may hold under each property name (Absent: no such property).
Absent == [absent |-> TRUE]
Holdings ==
    [id : {Absent, JsStr("v1")},
     name : {Absent, Undefined, Null, JsStr("v1")},
     secret : {Absent, JsStr("v2")},
     a : {Absent, JsStr("v2"), JsObj([k \in {"b"} |-> JsStr("v1")])},
     ab : {Absent, JsStr("v2")}]
OrderInstances ==
    {LET at(k) == IF k = "a.b" THEN h.ab ELSE h[k]
     IN  Instance("Order", [k \in {x \in {"id", "name", "secret", "a", "a.b"} :
                                      at(x) # Absent} |-> at(k)]) : h \in Holdings}

\* toElasticsearchDocument(instance) is called.
Project(instance) ==
    /\ projected' =
           [instance |-> instance,
            declared |-> IF IsUndefined(getFieldsMetadata(instance.ctor)) THEN {}
                         ELSE MapKeys(EntriesOf(getFieldsMetadata(instance.ctor))),
            document |-> toElasticsearchDocument(instance)]
    /\ UNCHANGED <<metaVars, engineVars, task, last, moduleVars, callVars>>

\* The state after construction of classes with the given Document
\* Declarations and no Field Declaration yet.
Bare(declarations) ==
    /\ documentMeta = declarations
    /\ fieldsMeta = NoMetadata
    /\ maps = NoMaps
    /\ indexMeta = NoMetadata
    /\ esExists = {}
    /\ esDocs = [n \in IndexNames |-> NoDocs]
    /\ task = [p \in Procs |-> Idle]
    /\ last = NoLast
    /\ Quiet

NextProject ==
    \/ \E key \in FieldNames :
          /\ Field(JsObj(EmptyObj), "Order", key)
          /\ UNCHANGED <<engineVars, task, last, moduleVars, projected, callVars>>
    \/ \E instance \in OrderInstances : Project(instance)

SpecProject == Bare(NoMetadata) /\ [][NextProject]_vars

\* The declared names at which the projected instance holds a non-undefined value.
Held ==
    {k \in projected.declared :
        /\ k \in DOMAIN projected.instance.props
        /\ projected.instance.props[k] # Undefined}

CompileNames == {"a", "b", "a.b"}

NextCompile ==
    \E c \in {"Product", "Order"} :
        \/ \E key \in CompileNames, opts \in FieldOptions :
              /\ Field(opts, c, key)
              /\ UNCHANGED <<engineVars, task, last, moduleVars, projected, callVars>>
        \/ /\ CompilesAll({c})
           /\ UNCHANGED <<engineVars, task, last, moduleVars, projected, callVars>>

SpecCompile ==
    /\ Bare([NoMetadata EXCEPT !["Product"] = DocumentOptions("products", Undefined),
                               !["Order"] = DocumentOptions("orders", Undefined)])
    /\ [][NextCompile]_vars

\* The Field Declarations in force on a class: name -> latest options.
Latest(c) ==
    IF IsUndefined(getFieldsMetadata(c)) THEN EmptyObj
    ELSE LET entries == EntriesOf(getFieldsMetadata(c))
         IN  [k \in MapKeys(entries) |->
                 entries[CHOOSE i \in DOMAIN entries : entries[i].key = k].options]

\* C10: two classes whose declarations give the same latest options per name
\* compile to equal properties, each name mapped to those options, in whatever
\* order the names were declared.
CompileOrderIndependent ==
    (Latest("Product") = Latest("Order") /\ DOMAIN Latest("Product") # {}) =>
        /\ buildDocumentMetadata("Product").meta.mappings
               = buildDocumentMetadata("Order").meta.mappings
        /\ buildDocumentMetadata("Product").meta.mappings["properties"]
               = JsObj(Latest("Product"))

\* ---- declarations on the entity class, and the descriptors compiled from them

\* The options the decorators are given: a Document Declaration with or
\* without its own mappings and settings, an Index Declaration with or without
\* settings.
Shards(n) == JsObj([k \in {"number_of_shards"} |-> JsNum(n)])
DescriptorDocuments ==
    {[DocumentOptions("products", st) EXCEPT !.mappings = m] :
        st \in {Undefined, Shards(1)},
        m \in {Undefined,
               JsObj([k \in {"dynamic"} |-> JsStr("strict")]),
               JsObj([k \in {"properties"} |->
                         JsObj([f \in {"legacy"} |-> JsObj([t \in {"type"} |-> JsStr("text")])])])}}
IndexOptions == {[name |-> JsStr("orders"), settings |-> st] : st \in {Undefined, Shards(2)}}

\* What a caller holds after buildDocumentMetadata(target) returned: the
\* descriptor by value (its fields Map by its entries).
Descriptor(target) ==
    LET built == buildDocumentMetadata(target)
    IN  IF IsUndefined(built.meta) THEN Undefined
        ELSE [built.meta EXCEPT
                 !.fields = IF IsUndefined(@) THEN Undefined ELSE [entries |-> built.entries]]

\* const descriptor = buildDocumentMetadata(target)
compile(target) ==
    /\ compiled' = [NoCompiled EXCEPT !.target = target, !.first = Descriptor(target)]
    /\ CompilesAll({target})
    /\ UNCHANGED <<engineVars, task, last, moduleVars, projected, derived>>

\* The caller changes the descriptor it holds.  descriptor.mappings and
\* descriptor.mappings.properties are objects of the call (cloneDeep, {});
\* descriptor.fields is the class's own Map, each properties entry of a declared
\* name is that Map's options object, and descriptor.settings is the settings
\* object of the declaration it was read from.
mutateDescriptor(part) ==
    LET target == compiled.target
        ref == getFieldsMetadata(target)
        fromIndex == ~IsUndefined(getIndexMetadata(target))
                         /\ ~IsUndefined(getIndexMetadata(target).settings)
        replicas(st) == JsObj(Put(st.object, "number_of_replicas", JsNum(2)))
    IN  /\ compiled.target # "none" /\ ~IsUndefined(compiled.first)
        /\ compiled.touched = "none"
        /\ compiled' = [compiled EXCEPT !.touched = part]
        /\ UNCHANGED <<engineVars, task, last, moduleVars, projected, derived>>
        /\ CASE part = "mappings" -> UNCHANGED metaVars
             [] part = "fields" ->
                    /\ ~IsUndefined(ref)
                    /\ maps' = [maps EXCEPT ![ref.map] = MapSet(@, "extra", JsObj(EmptyObj))]
                    /\ UNCHANGED <<documentMeta, fieldsMeta, indexMeta>>
             [] part = "properties" ->
                    /\ ~IsUndefined(ref)
                    /\ \E i \in DOMAIN EntriesOf(ref) :
                          maps' = [maps EXCEPT ![ref.map][i].options =
                                      JsObj(Put(@.object, "boost", JsNum(2)))]
                    /\ UNCHANGED <<documentMeta, fieldsMeta, indexMeta>>
             [] part = "settings" ->
                    /\ ~IsUndefined(compiled.first.settings)
                    /\ IF fromIndex
                       THEN /\ indexMeta' = [indexMeta EXCEPT ![target].settings = replicas(@)]
                            /\ UNCHANGED <<documentMeta, fieldsMeta, maps>>
                       ELSE /\ documentMeta' =
                                   [documentMeta EXCEPT ![target].settings = replicas(@)]
                            /\ UNCHANGED <<fieldsMeta, maps, indexMeta>>

\* buildDocumentMetadata(target) again, on the declarations as they now are.
compileAgain ==
    /\ compiled.touched # "none" /\ ~compiled.again
    /\ compiled' = [compiled EXCEPT !.again = TRUE, !.then = Descriptor(compiled.target)]
    /\ CompilesAll({compiled.target})
    /\ UNCHANGED <<engineVars, task, last, moduleVars, projected, derived>>

\* A decorator runs, as the class is defined: before anything compiles it.
Declares(decorator) ==
    /\ compiled = NoCompiled
    /\ decorator
    /\ UNCHANGED <<engineVars, task, last, moduleVars, projected, callVars>>

NextDescriptor ==
    \/ \E options \in DescriptorDocuments : Declares(Document(options, entityCtor))
    \/ \E options \in IndexOptions : Declares(Index(options, entityCtor))
    \/ \E key \in {"id", "name"} : Declares(Field(JsObj(EmptyObj), entityCtor, key))
    \/ compile(entityCtor)
    \/ \E part \in {"mappings", "fields", "properties", "settings"} : mutateDescriptor(part)
    \/ compileAgain
    \/ compiled.target # "none" /\ compiled.touched = "none" /\ ensureIndex("p1")

SpecDescriptor == Bare(NoMetadata) /\ [][NextDescriptor]_vars

\* C11: whatever part of a compiled descriptor the caller changed, compiling
\* the class again with unchanged declarations gives a descriptor equal to the
\* one the first compilation returned.
CompileLeaksNothing ==
    compiled.again => compiled.then = compiled.first

\* The names declared as fields on the class compiled.
DeclaredNames ==
    IF IsUndefined(getFieldsMetadata(compiled.target)) THEN {}
    ELSE MapKeys(EntriesOf(getFieldsMetadata(compiled.target)))

\* C12: the descriptor compiled for a class with a Document Declaration has
\* mappings.properties, and its keys are exactly the declared field names.
PropertiesAreDeclaredNames ==
    (compiled.target # "none" /\ ~IsUndefined(compiled.first) /\ compiled.touched = "none") =>
        /\ "properties" \in DOMAIN compiled.first.mappings
        /\ DOMAIN compiled.first.mappings["properties"].object = DeclaredNames

\* C13: the compiled settings are the Index Declaration's when it has settings,
\* else the Document Declaration's (absent when it has none); the compiled
\* index is the Document Declaration's, and it is the index ensureIndex
\* creates and the index accessor returns, whatever the Index Declaration names.
IndexDeclarationSetsOnlySettings ==
    LET doc == documentMeta[entityCtor]
        idx == indexMeta[entityCtor]
    IN  /\ (compiled.target # "none" /\ ~IsUndefined(compiled.first)
                /\ compiled.touched = "none") =>
               /\ compiled.first.index = doc.index
               /\ compiled.first.settings =
                      IF ~IsUndefined(idx) /\ ~IsUndefined(idx.settings)
                      THEN idx.settings ELSE doc.settings
        /\ Declared => index = Return(doc.index)
        /\ esExists \subseteq IF Declared THEN {Name(doc.index)} ELSE {}

\* C13 happens: a class whose Document Declaration has index products and its
\* own settings and whose Index Declaration names orders with other settings
\* was compiled, and ensureIndex created products.
IndexDeclarationOverDocument ==
    /\ compiled.target = entityCtor /\ ~IsUndefined(compiled.first)
    /\ compiled.touched = "none"
    /\ ~IsUndefined(indexMeta[entityCtor])
    /\ indexMeta[entityCtor].settings = Shards(2)
    /\ documentMeta[entityCtor].settings = Shards(1)
    /\ compiled.first.settings = Shards(2)
    /\ last.op = "ensureIndex" /\ ~last.threw
    /\ esExists = {"products"}

\* ---- the connection registry: configured, read and disposed of

\* Most clients ever made.
MaxClients == 3

\* The names connections are configured and asked for under: none, empty,
\* and spellings of "an" and "default" in other letter case or between blanks.
RegistryNames ==
    {Undefined, JsStr(<<>>), JsStr(<<"a", "n">>), JsStr(<<"A", "n">>),
     JsStr(<<" ", "A", "n", " ">>), JsStr(<<"D", "e", "f", "a", "u", "l", "t">>)}

\* service.configure({ clients })
service_configure(clients) ==
    /\ shutdown.at # "awaiting"
    /\ Len(created) + Len(clients) <= MaxClients
    /\ nameToClient' = ElasticsearchService_configure(nameToClient, created, clients).nameToClient
    /\ created' = ElasticsearchService_configure(nameToClient, created, clients).created
    /\ shutdown' = NoShutdown
    /\ UNCHANGED <<metaVars, engineVars, task, last, moduleOptions, boot, creations,
                   projected, callVars>>

\* onModuleDestroy up to its await: close() is called on every registered
\* client; a call that throws is dropped, the others are awaited together.
onModuleDestroy ==
    /\ shutdown.at # "awaiting"
    /\ \E thrown \in SUBSET values(nameToClient) :
          shutdown' = [at |-> "awaiting",
                       closers |-> [c \in values(nameToClient) \ thrown |->
                                       [state |-> "pending"]]]
    /\ created' = [c \in DOMAIN created |->
                      IF c \in values(nameToClient)
                      THEN [created[c] EXCEPT !.closes = @ + 1] ELSE created[c]]
    /\ UNCHANGED <<metaVars, engineVars, task, last, moduleOptions, nameToClient, boot,
                   creations, projected, callVars>>

\* One of the close() promises settles.
closeSettles(c) ==
    /\ shutdown.at = "awaiting"
    /\ c \in DOMAIN shutdown.closers
    /\ shutdown.closers[c].state = "pending"
    /\ \E outcome \in {"fulfilled", "rejected"} :
          shutdown' = [shutdown EXCEPT !.closers[c].state = outcome]
    /\ UNCHANGED <<metaVars, engineVars, task, last, moduleOptions, nameToClient, boot,
                   creations, created, projected, callVars>>

\* await Promise.allSettled(closers) resumes; nameToClient.clear().
onModuleDestroy_settled ==
    /\ shutdown.at = "awaiting"
    /\ allSettled(shutdown.closers)
    /\ nameToClient' = EmptyObj
    /\ shutdown' = [shutdown EXCEPT !.at = "done"]
    /\ UNCHANGED <<metaVars, engineVars, task, last, moduleOptions, boot, creations,
                   created, projected, callVars>>

NextRegistry ==
    \/ \E clients \in SeqsUpTo([name : RegistryNames], 2) : service_configure(clients)
    \/ onModuleDestroy
    \/ \E c \in 1..MaxClients : closeSettles(c)
    \/ onModuleDestroy_settled

SpecRegistry == Bare(NoMetadata) /\ [][NextRegistry]_vars

\* service.get(name), name being a string or left out.
Asked(name) ==
    ElasticsearchService_get(IF IsUndefined(name) THEN ES_DEFAULT_CLIENT_NAME ELSE name.string)

\* C14: a registered connection configured under name N is what get(M)
\* returns for every M with the same normalized name (trimmed, lower-cased,
\* "default" when blank or left out).
NamesNormalizedAlike ==
    \A c \in values(nameToClient), M \in RegistryNames :
        normalizeName(created[c].name) = normalizeName(M) =>
            /\ ~Asked(M).threw
            /\ normalizeName(created[Asked(M).value].name) = normalizeName(M)

\* C15: while onModuleDestroy waits, close() has been called on every
\* registered client and the registry still holds them; it returns only when
\* every close has settled, fulfilled or not, and from then on the registry
\* is empty and get fails for every name.
DisposeAllClosesEverything ==
    /\ shutdown.at = "awaiting" =>
           /\ \A c \in values(nameToClient) : created[c].closes = 1
           /\ DOMAIN shutdown.closers \subseteq values(nameToClient)
    /\ shutdown.at = "done" =>
           /\ \A c \in DOMAIN shutdown.closers :
                  shutdown.closers[c].state \in {"fulfilled", "rejected"}
           /\ nameToClient = EmptyObj
           /\ \A M \in RegistryNames :
                  Asked(M) = Throw("Elasticsearch client not found")

\* C15 happens: onModuleDestroy has returned after one close() threw, one
\* close promise was rejected and one was fulfilled.
DisposedDespiteFailures ==
    /\ shutdown.at = "done"
    /\ \E c \in DOMAIN created : created[c].closes = 1 /\ c \notin DOMAIN shutdown.closers
    /\ \E c, d \in DOMAIN shutdown.closers :
          shutdown.closers[c].state = "rejected" /\ shutdown.closers[d].state = "fulfilled"

\* C16: every registered name holds the client made last under that name; a
\* client that was replaced is out of the registry with close() never called
\* on it, by configure or by onModuleDestroy.
ReplacedNeverClosed ==
    /\ \A n \in DOMAIN nameToClient, c \in DOMAIN created :
           configure(EmptyObj, <<created[c]>>, 1, 0) = Put(EmptyObj, n, 1) =>
               c <= nameToClient[n]
    /\ \A c \in DOMAIN created :
           created[c].replaced => created[c].closes = 0 /\ c \notin values(nameToClient)

\* C16 happens: onModuleDestroy has returned, having closed the client that
\* replaced another one under the same name; the replaced one is still open.
ReplacedLeftOpen ==
    /\ shutdown.at = "done"
    /\ \E c, d \in DOMAIN created :
          /\ c < d
          /\ configure(EmptyObj, <<created[c]>>, 1, 0) = configure(EmptyObj, <<created[d]>>, 1, 0)
          /\ created[c].replaced /\ created[c].closes = 0
          /\ created[d].closes = 1

\* ---- injection tokens

ES_CLIENT == <<"E", "S", "_", "C", "L", "I", "E", "N", "T">>
ES_REPOSITORY == <<"E", "S", "_", "R", "E", "P", "O", "S", "I", "T", "O", "R", "Y">>

\* A derivation that upper-cases the name as it was given.
getElasticsearchClientToken_untrimmed(name) ==
    LET keyUpper == toUpper(IF IsUndefined(name) \/ name.string = <<>>
                            THEN ES_DEFAULT_CLIENT_NAME ELSE name.string)
    IN  IF keyUpper = toUpper(ES_DEFAULT_CLIENT_NAME) THEN ES_CLIENT
        ELSE ES_CLIENT \o <<"_">> \o keyUpper

\* getElasticsearchClientToken(name)
getElasticsearchClientToken(name) ==
    LET keyUpper == toUpper(IF trim(name) = <<>> THEN ES_DEFAULT_CLIENT_NAME ELSE trim(name))
    IN  IF keyUpper = toUpper(ES_DEFAULT_CLIENT_NAME) THEN ES_CLIENT
        ELSE ES_CLIENT \o <<"_">> \o keyUpper

\* getRepositoryToken(entity, clientName)
getRepositoryToken(entity, clientName) ==
    LET base == toUpper(ES_REPOSITORY \o <<"_">> \o entity.name)
        name == toUpper(trim(IF IsUndefined(clientName) \/ clientName.string = <<>>
                             THEN JsStr(ES_DEFAULT_CLIENT_NAME) ELSE clientName))
        clientToken == getElasticsearchClientToken(JsStr(name))
    IN  base \o <<"_">> \o clientToken

\* The names tokens are derived from: none, every string of at most three
\* characters over a, A and blank, and spellings of "default".
TokenNames ==
    {Undefined}
    \cup {JsStr(s) : s \in SeqsUpTo({"a", "A", " "}, 3)}
    \cup {JsStr(s) : s \in {ES_DEFAULT_CLIENT_NAME, toUpper(ES_DEFAULT_CLIENT_NAME),
                            <<" ">> \o ES_DEFAULT_CLIENT_NAME,
                            <<"D", "e", "f", "a", "u", "l", "t", " ">>}}
EntityClasses == {[name |-> <<"U", "s", "e", "r">>], [name |-> <<"A">>], [name |-> <<"a", "A">>]}

\* @InjectElasticsearch(name)
InjectElasticsearch(name) ==
    /\ derived' = [of |-> "client", entity |-> <<>>, name |-> name,
                   token |-> getElasticsearchClientToken(name)]
    /\ UNCHANGED <<metaVars, engineVars, task, last, moduleVars, projected, compiled>>

\* @InjectEsRepository(entity, clientName)
InjectEsRepository(entity, clientName) ==
    /\ derived' = [of |-> "repository", entity |-> entity.name, name |-> clientName,
                   token |-> getRepositoryToken(entity, clientName)]
    /\ UNCHANGED <<metaVars, engineVars, task, last, moduleVars, projected, compiled>>

NextTokens ==
    \/ \E name \in TokenNames : InjectElasticsearch(name)
    \/ \E entity \in EntityClasses, name \in TokenNames : InjectEsRepository(entity, name)

SpecTokens == Bare(NoMetadata) /\ [][NextTokens]_vars

NextBulk ==
    \/ \E es \in SeqsUpTo(EntityInstances, MaxBulk) : bulkIndex("p1", es)
    \/ \E ids \in SeqsUpTo(Ids, MaxIds) : bulkDeleteByIds("p1", ids)
    \/ \E us \in SeqsUpTo({u \in Updates : "name" \in DOMAIN u.doc}, MaxBulk) :
          bulkUpdateByIds("p1", us)
    \/ \E ids \in SeqsUpTo(Ids, MaxIds) : mgetSources("p1", ids)
    \/ deleteIndex("p1")

SpecBulk == Start({Undefined, DocumentOptions("products", Undefined)}) /\ [][NextBulk]_vars

\* C18: a batch or multi-get method given an empty input returns (mgetSources
\* an empty sequence) without a call to the connection, whatever the
\* repository's state; given a non-empty input on an entity with a Document
\* Declaration it makes exactly one call.
EmptyBatchNoCall ==
    last.op \in {"bulkIndex", "bulkDeleteByIds", "bulkUpdateByIds", "mgetSources"} =>
        /\ last.args[1] = <<>> =>
               /\ ~last.threw /\ last.calls = 0 /\ last.seen = NoCall
               /\ last.value = IF last.op = "mgetSources" THEN <<>> ELSE Undefined
        /\ (last.args[1] # <<>> /\ Declared) =>
               /\ last.calls = 1
               /\ last.seen.status = 0 <=> last.threw

\* C18 happens: bulkDeleteByIds([]) returned without a call while the index
\* held a document.
EmptyBulkDeleteSkipped ==
    /\ last.op = "bulkDeleteByIds" /\ last.args[1] = <<>>
    /\ ~last.threw /\ last.calls = 0
    /\ Declared /\ DeclaredIndex \in esExists
    /\ DOMAIN esDocs[DeclaredIndex] # {}

\* C26: the one request of a bulk method on a non-empty input lists the
\* input in its order: bulkDeleteByIds one delete entry per id, bulkIndex and
\* bulkUpdateByIds per item an action entry followed at once by its body;
\* every action entry names the declared index.
BulkKeepsInputOrder ==
    (/\ last.op \in {"bulkIndex", "bulkDeleteByIds", "bulkUpdateByIds"}
     /\ last.args[1] # <<>> /\ Declared) =>
        LET xs == last.args[1]
            ops == last.sent[1].req.operations
            ix == getDocumentMetadata(entityCtor).index
            entry(kind, id) == [action |-> kind, _id |-> id, _index |-> ix]
        IN  /\ Len(last.sent) = 1 /\ last.sent[1].req.api = "bulk"
            /\ last.op = "bulkDeleteByIds" =>
                   /\ Len(ops) = Len(xs)
                   /\ \A i \in DOMAIN xs : ops[i] = entry("delete", xs[i])
            /\ last.op = "bulkIndex" =>
                   /\ Len(ops) = 2 * Len(xs)
                   /\ \A i \in DOMAIN xs :
                          /\ ops[2 * i - 1] = entry("index", Undefined)
                          /\ ops[2 * i] = [body |-> toElasticsearchDocument(xs[i])]
            /\ last.op = "bulkUpdateByIds" =>
                   /\ Len(ops) = 2 * Len(xs)
                   /\ \A i \in DOMAIN xs :
                          /\ ops[2 * i - 1] = entry("update", xs[i].id)
                          /\ ops[2 * i] = [body |-> xs[i].doc]

\* C26 happens: a bulkIndex of two entities with unlike wire documents was
\* sent as action, body, action, body.
BulkIndexOfTwo ==
    /\ last.op = "bulkIndex" /\ Len(last.args[1]) = 2 /\ Len(last.sent) = 1
    /\ Len(last.sent[1].req.operations) = 4
    /\ last.sent[1].req.operations[2] # last.sent[1].req.operations[4]

\* ---- entities that carry their id, indexed by one caller without an id argument

IdentifiedInstances ==
    {Instance("Product", [id |-> id, name |-> JsStr(v)]) : id \in Ids, v \in {"v1", "v2"}}

NextIndexOne ==
    \/ Declares(Field(JsObj(EmptyObj), entityCtor, "id"))
    \/ \E e \in IdentifiedInstances : indexOne("p1", e, Undefined)
    \/ refresh("p1")
    \/ \E id \in Ids : findSourceById("p1", id)
    \/ findSourceById_get("p1")

SpecIndexOne == Start({DocumentOptions("products", Undefined)}) /\ [][NextIndexOne]_vars

\* C19: when all the index holds is one entity stored by indexOne(e) without
\* an id argument, findSourceById of e's id field returns e's wire document.
IndexOneFoundById ==
    LET held == esDocs[DeclaredIndex]
    IN  (/\ last.op = "findSourceById" /\ ~last.threw
         /\ DeclaredIndex \in esExists
         /\ \E k \in DOMAIN held :
               /\ DOMAIN held = {k}
               /\ "id" \in DOMAIN held[k] /\ held[k]["id"] = last.args[1]) =>
            \E k \in DOMAIN held : last.value = JsObj(held[k])

\* ---- upserts by one caller

NextUpsert ==
    \/ \E id \in Ids, d \in Partials, o \in Refreshes : upsertByIdAndGetSource("p1", id, d, o)
    \/ AndGetSource_get("p1")
    \/ \E id \in Ids : deleteById("p1", id)
    \/ deleteIndex("p1")

SpecUpsert == Start({DocumentOptions("products", Undefined)}) /\ [][NextUpsert]_vars

\* C20: the update call of upsertByIdAndGetSource leaves under the id the
\* partial when no document had the id, else the stored body with the
\* partial's fields over it; the method returns the source it leaves.
UpsertReturnsMerged ==
    [][LET f == IF task["p1"] = Idle THEN task'["p1"].frame ELSE task["p1"].frame
           id == f.args[1]
           partial == f.args[2]
           before == esDocs[DeclaredIndex]
           merged == [k \in DOMAIN before[id] \cup DOMAIN partial |->
                         IF k \in DOMAIN partial THEN partial[k] ELSE before[id][k]]
       IN  /\ (task["p1"] = Idle /\ task'["p1"] # Idle) =>
                  esDocs'[DeclaredIndex][id] =
                      IF DeclaredIndex \in esExists /\ id \in DOMAIN before
                      THEN merged ELSE partial
           /\ (task["p1"] # Idle /\ task'["p1"] = Idle /\ ~last'.threw) =>
                  last'.value = JsObj(before[id])
      ]_vars

\* C20 happens: an upsert of a partial with a price alone returned that
\* partial (the document was created), and one returned a stored body with
\* the partial's fields over it.
UpsertCreated ==
    /\ last.op = "upsertByIdAndGetSource" /\ ~last.threw
    /\ last.value = JsObj(last.args[2])
    /\ \E id \in DOMAIN esDocs[DeclaredIndex] :
          /\ id # last.args[1]
          /\ DOMAIN esDocs[DeclaredIndex][id] = {"name", "price"}

\* ---- projection, hydration and projection again, on the entity class

\* The names declared on the entity class: plain ones and a path under one.
RoundTripNames == {"name", "a", "a.b"}

\* Instances of the entity class, holding what the instances above hold.
ProductInstances == {Instance(entityCtor, i.props) : i \in OrderInstances}

\* createEntity(toElasticsearchDocument(e)), and the projection of the result.
RoundTrip(e) ==
    /\ projected' =
           [instance |-> e,
            declared |-> IF IsUndefined(getFieldsMetadata(e.ctor)) THEN {}
                         ELSE MapKeys(EntriesOf(getFieldsMetadata(e.ctor))),
            document |-> toElasticsearchDocument(e),
            hydrated |-> createEntity(toElasticsearchDocument(e)),
            again |-> toElasticsearchDocument(createEntity(toElasticsearchDocument(e)))]
    /\ UNCHANGED <<metaVars, engineVars, task, last, moduleVars, callVars>>

NextRoundTrip ==
    \/ \E key \in RoundTripNames : Declares(Field(JsObj(EmptyObj), entityCtor, key))
    \/ \E e \in ProductInstances : RoundTrip(e)

SpecRoundTrip == Bare(NoMetadata) /\ [][NextRoundTrip]_vars

\* C21: for an instance of a class with Field Declarations, the hydrated wire
\* document is of the entity class, reads at every declared name what the
\* instance reads there, and projects to the same wire document.
RoundTripLossless ==
    projected.declared # {} =>
        /\ projected.hydrated.ctor = projected.instance.ctor
        /\ \A k \in projected.declared :
               get(projected.hydrated.props, k) = get(projected.instance.props, k)
        /\ projected.again = projected.document

\* ---- calls that fail, seen by one caller

NextFailures ==
    \/ ensureIndex("p1")
    \/ deleteIndex("p1")
    \/ \E e \in EntityInstances, id \in Ids : indexOne("p1", e, id)
    \/ \E id \in Ids : deleteById("p1", id)
    \/ \E id \in Ids, d \in Partials : updateById("p1", id, d)
    \/ \E id \in Ids : findById("p1", id)
    \/ \E id \in Ids : findSourceById("p1", id)
    \/ findSourceById_get("p1")
    \/ \E id \in Ids, d \in Partials, o \in Refreshes : updateByIdAndGetSource("p1", id, d, o)
    \/ AndGetSource_get("p1")

SpecFailures == Start(RepoDeclarations \ {Undefined}) /\ [][NextFailures]_vars

\* C22: a method that has made calls made no call after a failed one and no
\* call twice; when its last call failed, other than with the already-exists
\* conflict on ensureIndex or with not-found on deleteIndex, the method ended
\* with that failure.
FailuresPropagate ==
    LET sent == last.sent
        failed(c) == c.status = 0 \/ c.status >= 300
        swallowed(c) ==
            \/ last.op = "ensureIndex" /\ c.type = "resource_already_exists_exception"
            \/ last.op = "deleteIndex" /\ c.status = 404
        failure(c) == IF c.type = "ConnectionError" THEN "ConnectionError"
                      ELSE IF c.type = "Unauthorized" THEN "ResponseError 401"
                      ELSE IF c.status = 404 THEN "ResponseError 404"
                      ELSE "ResponseError 400"
    IN  /\ \A i \in 1..(Len(sent) - 1) : ~failed(sent[i])
        /\ \A i, j \in DOMAIN sent : i # j => sent[i].req # sent[j].req
        /\ \A i \in DOMAIN sent :
               (i = Len(sent) /\ failed(sent[i]) /\ ~swallowed(sent[i])) =>
                   last.threw /\ last.error = failure(sent[i])

\* ---- two callers updating and reading back the same documents

NextReadBack ==
    \E p \in Procs :
        \/ \E e \in EntityInstances : indexOne(p, e, IdOrder[1])
        \/ \E id \in Ids, d \in Partials : updateByIdAndGetSource(p, id, d, Undefined)
        \/ AndGetSource_get(p)
        \/ deleteById(p, IdOrder[1])

SpecReadBack == Start({DocumentOptions("products", Undefined)}) /\ [][NextReadBack]_vars

\* C23: what an ...AndGetSource method returns is the body the engine holds
\* under the id when the read is answered, whoever wrote it, and its read
\* fails with not-found when no document has the id by then: nothing ties the
\* read to the caller's own write.
ReadBackSeesEngine ==
    [][\A p \in Procs :
          (task[p].at = "AndGetSource:get" /\ task'[p] = Idle) =>
              LET id == task[p].locals.id
                  held == esDocs[DeclaredIndex]
                  stored == DeclaredIndex \in esExists /\ id \in DOMAIN held
              IN  /\ ~last'.threw => stored /\ last'.value = JsObj(held[id])
                  /\ last'.threw /\ last'.error = "ResponseError 404" => ~stored
      ]_vars

\* C23 happens: a caller's updateByIdAndGetSource of a name returned a source
\* with the price that the other caller, still before its own read of the same
\* id, has written.
ReadBackSawOtherWrite ==
    /\ last.op = "updateByIdAndGetSource" /\ ~last.threw
    /\ DOMAIN last.args[2] = {"name"}
    /\ \E q \in Procs \ {last.proc} :
          /\ task[q].at = "AndGetSource:get"
          /\ task[q].frame.op = "updateByIdAndGetSource"
          /\ task[q].frame.args[1] = last.args[1]
          /\ DOMAIN task[q].frame.args[2] = {"price"}
          /\ "price" \in DOMAIN last.value.object
          /\ last.value.object["price"] = task[q].frame.args[2]["price"]

\* ---- the Document Declaration redeclared between the calls of one caller

NextRedeclare ==
    \/ \E n \in IndexNames : Declares(Document(DocumentOptions(n, Undefined), entityCtor))
    \/ \E e \in EntityInstances : indexOne("p1", e, IdOrder[1])
    \/ findSourceById("p1", IdOrder[1])
    \/ findSourceById_get("p1")
    \/ \E d \in Partials : updateByIdAndGetSource("p1", IdOrder[1], d, Undefined)
    \/ AndGetSource_get("p1")

SpecRedeclare == Start({DocumentOptions("products", Undefined)}) /\ [][NextRedeclare]_vars

\* C24: every call a method makes, its first call and the second call of a
\* two-call method alike, names the index the Document Declaration holds at
\* the moment of that call.
IndexReadPerCall ==
    [][LET was == task["p1"]
           now == task'["p1"]
           log == IF now # Idle THEN now.frame.sent ELSE last'.sent
           made == IF was = Idle THEN Len(log) > 0 ELSE Len(log) > Len(was.frame.sent)
       IN  (/\ was # now \/ (last' # last /\ last'.proc = "p1")
            /\ made) =>
               log[Len(log)].req.index = getDocumentMetadata(entityCtor).index
      ]_vars

\* C24 happens: a findSourceById whose existence check went to one index and
\* whose read went to the index declared in between.
RedeclaredBetweenCalls ==
    /\ last.op = "findSourceById" /\ Len(last.sent) = 2
    /\ last.sent[1].req.index # last.sent[2].req.index
    /\ last.sent[2].req.index = getDocumentMetadata(entityCtor).index

\* ---- the three ...AndGetSource methods, by one caller

AndGetSourceMethods ==
    {"updateByIdAndGetSource", "upsertByIdAndGetSource", "updateByIdScriptAndGetSource"}

NextAndGetSource ==
    \/ \E e \in EntityInstances : indexOne("p1", e, IdOrder[1])
    \/ \E id \in Ids, d \in Partials, o \in Refreshes : updateByIdAndGetSource("p1", id, d, o)
    \/ \E id \in Ids, d \in Partials, o \in Refreshes : upsertByIdAndGetSource("p1", id, d, o)
    \/ \E id \in Ids, sc \in Scripts, o \in Refreshes :
          updateByIdScriptAndGetSource("p1", id, sc, o)
    \/ AndGetSource_get("p1")

SpecAndGetSource == Start({DocumentOptions("products", Undefined)}) /\ [][NextAndGetSource]_vars

\* C25: an ...AndGetSource method made first one update call on its id with
\* the caller's refresh directive (none when the caller gave none); it made a
\* second call only after that one succeeded, and the second call is a get of
\* the same id on the same index and nothing more; what it returned is the
\* body that get read.
RefreshOnWriteOnly ==
    (last.op \in AndGetSourceMethods) =>
        LET sent == last.sent
            id == last.args[1]
        IN  /\ Len(sent) \in {1, 2}
            /\ sent[1].req.api = "update" /\ sent[1].req.id = id
            /\ sent[1].req.refresh = last.args[3]
            /\ Len(sent) = 1 => last.threw /\ (sent[1].status = 0 \/ sent[1].status >= 300)
            /\ Len(sent) = 2 =>
                   /\ sent[1].status \in {200, 201}
                   /\ sent[2].req = [api |-> "get", id |-> id, index |-> sent[1].req.index]
                   /\ (~last.threw /\ task["p1"] = Idle) =>
                          last.value = JsObj(esDocs[Name(sent[2].req.index)][id])

\* C25 happens: an updateByIdScriptAndGetSource called with refresh wait_for
\* has made its update and its read and returned the source.
ScriptUpdateReadBack ==
    /\ last.op = "updateByIdScriptAndGetSource" /\ ~last.threw
    /\ last.args[3] = JsStr("wait_for")
    /\ Len(last.sent) = 2
    /\ last.sent[1].req.refresh = JsStr("wait_for")
    /\ IsObject(last.value)

\* ---- searches by one caller over documents it has indexed

NextSearch ==
    \/ \E e \in EntityInstances, id \in Ids : indexOne("p1", e, id)
    \/ \E a \in SearchParams : searchSources("p1", a)
    \/ \E a \in SearchParams : searchSourcesWithMeta("p1", a)
    \/ \E a \in SearchParams : searchFirstSource("p1", a)

SpecSearch == Start({DocumentOptions("products", Undefined)}) /\ [][NextSearch]_vars

\* C27: searchSources returns the sources of the hits that carry one, in hit
\* order; searchSourcesWithMeta returns for the same hits, in the same
\* order, the id, index and source with the score, null when the hit has
\* none; searchFirstSource asks for size 1 whatever size the caller named
\* and returns undefined when nothing is hit.
SearchProjectsHits ==
    (last.op \in {"searchSources", "searchSourcesWithMeta", "searchFirstSource"}
     /\ ~last.threw) =>
        LET hits == last.seen.held
            present == {i \in DOMAIN hits : ~IsNil(hits[i]._source)}
            inOrder(entry(_)) ==
                /\ Len(last.value) = Cardinality(present)
                /\ \E f \in [DOMAIN last.value -> present] :
                      /\ \A a, b \in DOMAIN f : a < b => f[a] < f[b]
                      /\ \A k \in DOMAIN f : last.value[k] = entry(hits[f[k]])
        IN  /\ last.op = "searchSources" => inOrder(LAMBDA h : h._source)
            /\ last.op = "searchSourcesWithMeta" =>
                   inOrder(LAMBDA h : [id |-> h._id, index |-> h._index, source |-> h._source,
                                       score |-> IF "number" \in DOMAIN h._score
                                                 THEN h._score ELSE Null])
            /\ last.op = "searchFirstSource" =>
                   /\ last.sent[1].req.size = JsNum(1)
                   /\ hits = <<>> => last.value = Undefined

\* C27 happens: a sorted searchSourcesWithMeta hit two documents, the first
\* without its source, and returned the one entry of the second, score null.
SearchDroppedSourcelessHit ==
    /\ last.op = "searchSourcesWithMeta" /\ ~last.threw
    /\ Len(last.seen.held) = 2 /\ IsNil(last.seen.held[1]._source)
    /\ Len(last.value) = 1
    /\ last.value[1].id = last.seen.held[2]._id
    /\ last.value[1].score = Null

\* ---- what indexOne and bulkIndex send for class instances and plain objects

\* Objects of the entity's shape that are no instances of it (object literals).
PlainObjects == {Instance("Object", e.props) : e \in EntityInstances}

\* The entities a caller may pass: instances, hydrated sources, plain objects.
Passed ==
    EntityInstances \cup {createEntity(e.props) : e \in EntityInstances} \cup PlainObjects

NextPassed ==
    \/ \E e \in Passed, id \in Ids : indexOne("p1", e, id)
    \/ \E es \in SeqsUpTo(Passed, MaxBulk) : bulkIndex("p1", es)

SpecPassed == Start({DocumentOptions("products", Undefined)}) /\ [][NextPassed]_vars

\* C28: every document indexOne and bulkIndex have sent holds only keys that
\* have a Field Declaration on the entity class.
SentOnlyDeclaredKeys ==
    (last.op \in {"indexOne", "bulkIndex"} /\ Len(last.sent) = 1) =>
        LET declared == MapKeys(EntriesOf(getFieldsMetadata(entityCtor)))
            req == last.sent[1].req
        IN  /\ last.op = "indexOne" => DOMAIN req.document \subseteq declared
            /\ last.op = "bulkIndex" =>
                   \A i \in DOMAIN req.operations :
                       "body" \in DOMAIN req.operations[i] =>
                           DOMAIN req.operations[i].body \subseteq declared

\* ---- field declarations on a class and on its subclass

\* The properties each of the two classes declares; no name is on both.
OwnFieldNames == [Product |-> {"id", "name"}, Variant |-> {"sku", "size"}]

NextInherit ==
    \E c \in DOMAIN OwnFieldNames, opts \in FieldOptions :
        \E key \in OwnFieldNames[c] : Declares(Field(opts, c, key))

SpecInherit ==
    /\ Bare([NoMetadata EXCEPT !["Product"] = DocumentOptions("products", Undefined),
                               !["Variant"] = DocumentOptions("orders", Undefined)])
    /\ [][NextInherit]_vars

\* C29: the field map of the superclass and the properties compiled for it
\* hold only names declared on the superclass, never one declared on its
\* subclass, in whatever order the two classes were declared on.
SubclassFieldsStayOut ==
    LET fields == getFieldsMetadata("Product")
        mappings == buildDocumentMetadata("Product").meta.mappings
    IN  /\ ~IsUndefined(fields) => MapKeys(EntriesOf(fields)) \subseteq OwnFieldNames["Product"]
        /\ "properties" \in DOMAIN mappings =>
               DOMAIN mappings["properties"].object \subseteq OwnFieldNames["Product"]

\* C30: get never returns a client on which close() has been called.
GetNeverReturnsClosing ==
    \A M \in RegistryNames :
        ~Asked(M).threw => created[Asked(M).value].closes = 0

====
